---------------------------- MODULE Spec2Model ----------------------------
(***************************************************************************)
(* Argument codec of the TX3 web SDK (tx3-sdk/src/trp/args.ts, types.ts).  *)
(*                                                                         *)
(* Representation of host values:                                          *)
(*   - a string is a sequence of one-character strings;                    *)
(*   - a Uint8Array is a sequence of numbers in 0..255;                    *)
(*   - a bigint is [neg, mag]: a sign and a big-endian base-256 magnitude  *)
(*     without leading zero bytes (zero is [neg |-> FALSE, mag |-> <<>>]), *)
(*     so that 128-bit values keep their full width;                       *)
(*   - a JS value carries its typeof: [typeof |-> "number", ...];          *)
(*   - a call that can throw returns an outcome: Ok(v) or Throw(cls, msg), *)
(*     msg being the fixed text of the message before the interpolation.   *)
(***************************************************************************)
EXTENDS Integers, Sequences, FiniteSets, TLC

VARIABLES
    pc,        \* position of the codec driver: "idle", "built", "encoded", "decoded"
    fn,        \* the function the caller calls first
    input,     \* the argument of that call
    value,     \* outcome of the factory call (create*Arg), or None
    json,      \* outcome of toJson, or the JSON value handed to fromJson
    target,    \* the Type handed to fromJson
    restored,  \* outcome of fromJson
    hexLog,    \* the calls of hexToBytes / bytesToHex made so far: [fn, arg, ret]
    heap,      \* the mutable arrays and buffers allocated so far, by reference
    requests,  \* the HTTP requests a client call has issued so far
    settled    \* the terminal outcomes a client call has reached so far

vars == <<pc, fn, input, value, json, target, restored, hexLog, heap, requests, settled>>

None == [none |-> TRUE]

Ok(v) == [ok |-> TRUE, v |-> v]

Throw(cls, msg) == [ok |-> FALSE, error |-> cls, message |-> msg]

-----------------------------------------------------------------------------
(* Bounds of the model *)

MaxHexLen == 4      \* longest string handed to hexToBytes, after the optional 0x
MaxBytesLen == 2    \* longest byte buffer built by the caller
MaxMagLen == 17     \* longest bigint magnitude, in bytes (17 bytes exceed i128)
MaxIndexLen == 2    \* longest index text of a utxo ref string

-----------------------------------------------------------------------------
(* Strings *)

startsWith(s, p) == Len(s) >= Len(p) /\ SubSeq(s, 1, Len(p)) = p

slice(s, n) == SubSeq(s, n + 1, Len(s))

RECURSIVE Repeat(_, _)
Repeat(x, n) == IF n <= 0 THEN <<>> ELSE <<x>> \o Repeat(x, n - 1)

RECURSIVE Concat(_)
Concat(ss) == IF ss = <<>> THEN <<>> ELSE Head(ss) \o Concat(Tail(ss))

RECURSIVE SeqsUpTo(_, _)
SeqsUpTo(S, n) ==
    IF n <= 0 THEN {<<>>}
    ELSE LET shorter == SeqsUpTo(S, n - 1)
         IN shorter \cup {Append(s, x) : s \in shorter, x \in S}

Digits == <<"0", "1", "2", "3", "4", "5", "6", "7", "8", "9",
            "a", "b", "c", "d", "e", "f">>

UpperDigits == <<"0", "1", "2", "3", "4", "5", "6", "7", "8", "9",
                 "A", "B", "C", "D", "E", "F">>

\* the value of character c as a digit of the radix, or -1
DigitValue(c, radix) ==
    IF \E i \in 1..radix : Digits[i] = c \/ UpperDigits[i] = c
    THEN (CHOOSE i \in 1..radix : Digits[i] = c \/ UpperDigits[i] = c) - 1
    ELSE -1

\* /^[0-9a-fA-F]*$/.test(s)
IsHexText(s) == \A i \in 1..Len(s) : DigitValue(s[i], 16) >= 0

NaN == [nan |-> TRUE, n |-> 0]

RECURSIVE ParseDigits(_, _, _, _)
ParseDigits(s, i, radix, acc) ==
    IF i > Len(s) \/ DigitValue(s[i], radix) < 0 THEN acc
    ELSE ParseDigits(s, i + 1, radix, acc * radix + DigitValue(s[i], radix))

RECURSIVE SkipSpaces(_)
SkipSpaces(s) == IF s # <<>> /\ Head(s) = " " THEN SkipSpaces(Tail(s)) ELSE s

\* Number.parseInt(s, radix): leading white space, a sign, for radix 16 an
\* optional 0x, then the longest run of digits; NaN when that run is empty
parseInt(s, radix) ==
    LET t == SkipSpaces(s)
        negative == t # <<>> /\ Head(t) = "-"
        u == IF t # <<>> /\ Head(t) \in {"-", "+"} THEN Tail(t) ELSE t
        w == IF radix = 16 /\ (startsWith(u, <<"0", "x">>) \/ startsWith(u, <<"0", "X">>))
             THEN slice(u, 2) ELSE u
    IN IF w = <<>> \/ DigitValue(w[1], radix) < 0 THEN NaN
       ELSE [nan |-> FALSE,
             n |-> (IF negative THEN -1 ELSE 1) * ParseDigits(w, 1, radix, 0)]

\* b.toString(16)
toString16(b) ==
    IF b < 16 THEN <<Digits[b + 1]>>
    ELSE <<Digits[(b \div 16) + 1], Digits[(b % 16) + 1]>>

padStart(s, n, c) == Repeat(c, n - Len(s)) \o s

RECURSIVE DecimalDigits(_)
DecimalDigits(n) ==
    IF n < 10 THEN <<Digits[n + 1]>>
    ELSE Append(DecimalDigits(n \div 10), Digits[(n % 10) + 1])

\* `${n}` for an integer host number
numberToString(n) == IF n < 0 THEN <<"-">> \o DecimalDigits(-n) ELSE DecimalDigits(n)

-----------------------------------------------------------------------------
(* Hex helpers *)

hexToBytesNoStrip(s) ==
    LET cleanHex == s
    IN IF Len(cleanHex) % 2 # 0 THEN Throw("ArgValueError", "Invalid hex string")
       ELSE IF ~IsHexText(cleanHex) THEN Throw("ArgValueError", "Invalid hex string")
       ELSE LET bytes == [i \in 1..(Len(cleanHex) \div 2) |->
                             parseInt(SubSeq(cleanHex, 2 * i - 1, 2 * i), 16)]
            IN IF \E i \in DOMAIN bytes : bytes[i].nan
               THEN Throw("ArgValueError", "Invalid hex string")
               ELSE Ok([i \in DOMAIN bytes |-> bytes[i].n])

hexToBytes(s) ==
    LET cleanHex == IF startsWith(s, <<"0", "x">>) THEN slice(s, 2) ELSE s
    IN IF Len(cleanHex) % 2 # 0 THEN Throw("ArgValueError", "Invalid hex string")
       ELSE IF ~IsHexText(cleanHex) THEN Throw("ArgValueError", "Invalid hex string")
       ELSE LET bytes == [i \in 1..(Len(cleanHex) \div 2) |->
                             parseInt(SubSeq(cleanHex, 2 * i - 1, 2 * i), 16)]
            IN IF \E i \in DOMAIN bytes : bytes[i].nan
               THEN Throw("ArgValueError", "Invalid hex string")
               ELSE Ok([i \in DOMAIN bytes |-> bytes[i].n])

bytesToHexNoPad(bytes) == Concat([i \in DOMAIN bytes |-> toString16(bytes[i])])

bytesToHex(bytes) ==
    Concat([i \in DOMAIN bytes |-> padStart(toString16(bytes[i]), 2, "0")])

-----------------------------------------------------------------------------
(* bigint arithmetic on sign and magnitude *)

I128Bytes == 16     \* new Uint8Array(16): the width of the wire form of an Int

RECURSIVE Norm(_)
Norm(m) == IF m # <<>> /\ Head(m) = 0 THEN Norm(Tail(m)) ELSE m

PadTo(m, n) == Repeat(0, n - Len(m)) \o m

MagLt(a, b) ==
    \/ Len(a) < Len(b)
    \/ /\ Len(a) = Len(b)
       /\ \E i \in 1..Len(a) : a[i] < b[i] /\ \A j \in 1..(i - 1) : a[j] = b[j]

MagLe(a, b) == a = b \/ MagLt(a, b)

\* a + b on magnitudes of equal length n, from the last byte, with carry
RECURSIVE AddFrom(_, _, _, _, _)
AddFrom(a, b, j, carry, acc) ==
    IF j < 1 THEN (IF carry = 0 THEN acc ELSE <<carry>> \o acc)
    ELSE LET sum == a[j] + b[j] + carry
         IN AddFrom(a, b, j - 1, sum \div 256, <<sum % 256>> \o acc)

MagAdd(a, b) ==
    LET n == IF Len(a) > Len(b) THEN Len(a) ELSE Len(b)
    IN Norm(AddFrom(PadTo(a, n), PadTo(b, n), n, 0, <<>>))

\* a - b on magnitudes of equal length n, a >= b, from the last byte, with borrow
RECURSIVE SubFrom(_, _, _, _, _)
SubFrom(a, b, j, borrow, acc) ==
    IF j < 1 THEN acc
    ELSE LET d == a[j] - b[j] - borrow
         IN IF d < 0 THEN SubFrom(a, b, j - 1, 1, <<d + 256>> \o acc)
            ELSE SubFrom(a, b, j - 1, 0, <<d>> \o acc)

MagSub(a, b) == Norm(SubFrom(a, PadTo(b, Len(a)), Len(a), 0, <<>>))

Big(neg, mag) == [neg |-> neg /\ mag # <<>>, mag |-> mag]

BigNeg(x) == Big(~x.neg, x.mag)

BigAdd(x, y) ==
    IF x.neg = y.neg THEN Big(x.neg, MagAdd(x.mag, y.mag))
    ELSE IF MagLe(y.mag, x.mag) THEN Big(x.neg, MagSub(x.mag, y.mag))
    ELSE Big(y.neg, MagSub(y.mag, x.mag))

BigSub(x, y) == BigAdd(x, BigNeg(y))

BigLt(x, y) ==
    IF x.neg /\ ~y.neg THEN TRUE
    ELSE IF ~x.neg /\ y.neg THEN FALSE
    ELSE IF x.neg THEN MagLt(y.mag, x.mag)
    ELSE MagLt(x.mag, y.mag)

BigLe(x, y) == x = y \/ BigLt(x, y)

\* BigInt(1) << BigInt(8 * n)
Pow256(n) == Big(FALSE, <<1>> \o Repeat(0, n))

MIN_I128 == Big(TRUE, <<128>> \o Repeat(0, 15))

MAX_I128 == Big(FALSE, <<127>> \o Repeat(255, 15))

MAX_SAFE_INTEGER == Big(FALSE, <<31>> \o Repeat(255, 6))

MIN_SAFE_INTEGER == BigNeg(MAX_SAFE_INTEGER)

\* host numbers: an integer-valued double carries its exact value
JsNumber(big) == [typeof |-> "number", int |-> TRUE, v |-> big]

JsFraction(floor) == [typeof |-> "number", int |-> FALSE, v |-> floor]

JsBigint(big) == [typeof |-> "bigint", v |-> big]

JsString(s) == [typeof |-> "string", s |-> s]

JsBoolean(b) == [typeof |-> "boolean", b |-> b]

JsNull == [typeof |-> "object", isNull |-> TRUE]

JsUndefined == [typeof |-> "undefined"]

JsUint8Array(bytes) == [typeof |-> "object", isNull |-> FALSE, u8 |-> bytes]

JsObject(props) == [typeof |-> "object", isNull |-> FALSE, props |-> props]

JsArray(items) == [typeof |-> "object", isNull |-> FALSE, items |-> items]

IsUint8Array(x) == x.typeof = "object" /\ "u8" \in DOMAIN x

IsPlainObject(x) == x.typeof = "object" /\ "props" \in DOMAIN x

IsArray(x) == x.typeof = "object" /\ "items" \in DOMAIN x

-----------------------------------------------------------------------------
(* Int codec *)

\* the loop of lines 146-149: bytes[j] = value & 0xff; value >>= 8, j = 15..0
RECURSIVE FillBytes(_, _, _)
FillBytes(j, mag, bytes) ==
    IF j < 1 THEN bytes
    ELSE FillBytes(j - 1,
                   IF mag = <<>> THEN <<>> ELSE SubSeq(mag, 1, Len(mag) - 1),
                   [bytes EXCEPT ![j] = IF mag = <<>> THEN 0 ELSE mag[Len(mag)]])

\* the loop of lines 156-161: add the carry from the last byte upwards
RECURSIVE AddCarry(_, _, _)
AddCarry(j, carry, bytes) ==
    IF j < 1 \/ carry = 0 THEN bytes
    ELSE LET sum == bytes[j] + carry
         IN AddCarry(j - 1, sum \div 256, [bytes EXCEPT ![j] = sum % 256])

TwosComplementBytes(i) ==
    LET abs == FillBytes(I128Bytes, i.mag, Repeat(0, I128Bytes))
        inverted == [j \in 1..I128Bytes |-> 255 - abs[j]]
    IN IF i.neg THEN AddCarry(I128Bytes, 1, inverted) ELSE abs

bigintToValueNoCarry(i) ==
    IF BigLe(MIN_SAFE_INTEGER, i) /\ BigLe(i, MAX_SAFE_INTEGER)
    THEN JsNumber(i)
    ELSE LET abs == FillBytes(I128Bytes, i.mag, Repeat(0, I128Bytes))
             inverted == [j \in 1..I128Bytes |-> 255 - abs[j]]
         IN JsString(<<"0", "x">> \o bytesToHex(IF i.neg THEN inverted ELSE abs))

bigintToValueOffByOne(i) ==
    IF BigLt(MIN_SAFE_INTEGER, i) /\ BigLt(i, MAX_SAFE_INTEGER)
    THEN JsNumber(i)
    ELSE JsString(<<"0", "x">> \o bytesToHex(TwosComplementBytes(i)))

bigintToValue(i) ==
    IF BigLe(MIN_SAFE_INTEGER, i) /\ BigLe(i, MAX_SAFE_INTEGER)
    THEN JsNumber(i)
    ELSE JsString(<<"0", "x">> \o bytesToHex(TwosComplementBytes(i)))

checkBigintInRange(x) ==
    IF BigLt(x, MIN_I128) \/ BigLt(MAX_I128, x)
    THEN Throw("ArgValueError", "Number is outside i128 range")
    ELSE Ok(TRUE)

numberToBigint(x) ==
    IF ~x.int THEN Throw("ArgValueError", "Number is not an integer")
    ELSE LET bigintValue == x.v
             check == checkBigintInRange(bigintValue)
         IN IF ~check.ok THEN check ELSE Ok(bigintValue)

stringToBigint(s) ==
    LET bytes == hexToBytes(s)
    IN IF ~bytes.ok THEN bytes
       ELSE IF Len(bytes.v) # I128Bytes
       THEN Throw("ArgValueError", "Invalid bytes for number")
       ELSE LET result == Big(FALSE, Norm(bytes.v))
            IN IF bytes.v[1] >= 128
               THEN Ok(BigSub(result, Pow256(I128Bytes)))
               ELSE Ok(result)

valueToBigintNullLast(v) ==
    IF v.typeof = "number" THEN numberToBigint(v)
    ELSE IF v.typeof = "bigint"
    THEN LET check == checkBigintInRange(v.v)
         IN IF ~check.ok THEN check ELSE Ok(v.v)
    ELSE IF v.typeof = "string" THEN stringToBigint(v.s)
    ELSE Throw("ArgValueError", "Value is not a number")

valueToBigint(v) ==
    IF v.typeof = "number" THEN numberToBigint(v)
    ELSE IF v.typeof = "bigint"
    THEN LET check == checkBigintInRange(v.v)
         IN IF ~check.ok THEN check ELSE Ok(v.v)
    ELSE IF v.typeof = "string" THEN stringToBigint(v.s)
    ELSE IF v.typeof = "object" /\ v.isNull THEN Throw("ArgValueError", "Value is null")
    ELSE Throw("ArgValueError", "Value is not a number")

-----------------------------------------------------------------------------
(* Bool, Bytes *)

valueToBoolTruthy(v) ==
    IF v.typeof = "boolean" THEN Ok(v.b)
    ELSE IF v.typeof = "number"
    THEN IF v.int /\ v.v = Big(FALSE, <<>>) THEN Ok(FALSE) ELSE Ok(TRUE)
    ELSE IF v.typeof = "string"
    THEN IF v.s = <<"t", "r", "u", "e">> THEN Ok(TRUE)
         ELSE IF v.s = <<"f", "a", "l", "s", "e">> THEN Ok(FALSE)
         ELSE Throw("ArgValueError", "Invalid string for boolean")
    ELSE Throw("ArgValueError", "Value is not a bool")

valueToBool(v) ==
    IF v.typeof = "boolean" THEN Ok(v.b)
    ELSE IF v.typeof = "number"
    THEN IF v.int /\ v.v = Big(FALSE, <<>>) THEN Ok(FALSE)
         ELSE IF v.int /\ v.v = Big(FALSE, <<1>>) THEN Ok(TRUE)
         ELSE Throw("ArgValueError", "Invalid number for boolean")
    ELSE IF v.typeof = "string"
    THEN IF v.s = <<"t", "r", "u", "e">> THEN Ok(TRUE)
         ELSE IF v.s = <<"f", "a", "l", "s", "e">> THEN Ok(FALSE)
         ELSE Throw("ArgValueError", "Invalid string for boolean")
    ELSE Throw("ArgValueError", "Value is not a bool")

\* a BytesEnvelope: {content, encoding}
IsEnvelope(v) ==
    /\ IsPlainObject(v)
    /\ "content" \in DOMAIN v.props
    /\ "encoding" \in DOMAIN v.props

valueToBytes(v) ==
    IF IsUint8Array(v) THEN Ok(v.u8)
    ELSE IF v.typeof = "string" THEN hexToBytes(v.s)
    ELSE IF IsEnvelope(v)
    THEN IF v.props.encoding = "hex" THEN hexToBytes(v.props.content)
         ELSE Throw("ArgValueError", "Unknown encoding")
    ELSE Throw("ArgValueError", "Value is not bytes")

-----------------------------------------------------------------------------
(* bech32 (the bech32 package): decode and fromWords *)

\* the printable ASCII characters from code 32; six of them stand under a name
Ascii ==
    <<" ", "!", "quote", "#", "$", "%", "&", "'", "lparen", "rparen", "star", "+",
      ",", "-", ".", "/", "0", "1", "2", "3", "4", "5", "6", "7",
      "8", "9", ":", ";", "<", "=", ">", "?", "@", "A", "B", "C",
      "D", "E", "F", "G", "H", "I", "J", "K", "L", "M", "N", "O",
      "P", "Q", "R", "S", "T", "U", "V", "W", "X", "Y", "Z", "[",
      "backslash", "]", "^", "_", "backtick", "a", "b", "c", "d", "e", "f", "g",
      "h", "i", "j", "k", "l", "m", "n", "o", "p", "q", "r", "s",
      "t", "u", "v", "w", "x", "y", "z", "{", "|", "}", "~">>

\* s.charCodeAt(i) of a printable ASCII character
CharCodeTable ==
    [c \in {Ascii[i] : i \in 1..Len(Ascii)} |->
        31 + (CHOOSE i \in 1..Len(Ascii) : Ascii[i] = c)]

CharCode(c) == CharCodeTable[c]

toLowerCase(s) ==
    [i \in 1..Len(s) |->
        IF CharCode(s[i]) >= 65 /\ CharCode(s[i]) <= 90
        THEN Ascii[CharCode(s[i]) + 32 - 31] ELSE s[i]]

toUpperCase(s) ==
    [i \in 1..Len(s) |->
        IF CharCode(s[i]) >= 97 /\ CharCode(s[i]) <= 122
        THEN Ascii[CharCode(s[i]) - 32 - 31] ELSE s[i]]

Bit(n, i) == (n \div (2 ^ i)) % 2

\* x ^ y on 5-bit groups
Xor5Table ==
    [x \in 0..31 |-> [y \in 0..31 |->
        CHOOSE z \in 0..31 : \A i \in 0..4 : Bit(z, i) = (Bit(x, i) + Bit(y, i)) % 2]]

Xor5(x, y) == Xor5Table[x][y]

XorGroup(a, b, g) == (32 ^ g) * Xor5((a \div (32 ^ g)) % 32, (b \div (32 ^ g)) % 32)

\* a ^ b on 30-bit values
Xor(a, b) ==
    XorGroup(a, b, 0) + XorGroup(a, b, 1) + XorGroup(a, b, 2)
        + XorGroup(a, b, 3) + XorGroup(a, b, 4) + XorGroup(a, b, 5)

Bech32Alphabet ==
    <<"q", "p", "z", "r", "y", "9", "x", "8", "g", "f", "2", "t", "v", "d", "w", "0",
      "s", "3", "j", "n", "5", "4", "k", "h", "c", "e", "6", "m", "u", "a", "7", "l">>

Bech32Generators == <<996825010, 642813549, 513874426, 1027748829, 705979059>>

\* -((b >> i) & 1) & GENERATOR[i]
Generator(b, i) == IF Bit(b, i - 1) = 1 THEN Bech32Generators[i] ELSE 0

RECURSIVE XorGenerators(_, _, _)
XorGenerators(acc, b, i) ==
    IF i > 5 THEN acc
    ELSE LET next == Xor(acc, Generator(b, i))
         IN IF next >= 0 THEN XorGenerators(next, b, i + 1) ELSE next

polymodStep(pre) == XorGenerators((pre % 33554432) * 32, pre \div 33554432, 1)

RECURSIVE PrefixHigh(_, _, _)
PrefixHigh(prefix, i, chk) ==
    IF i > Len(prefix) THEN chk
    ELSE LET next == Xor(polymodStep(chk), CharCode(prefix[i]) \div 32)
         IN IF next >= 0 THEN PrefixHigh(prefix, i + 1, next) ELSE next

RECURSIVE PrefixLow(_, _, _)
PrefixLow(prefix, i, chk) ==
    IF i > Len(prefix) THEN chk
    ELSE LET next == Xor(polymodStep(chk), CharCode(prefix[i]) % 32)
         IN IF next >= 0 THEN PrefixLow(prefix, i + 1, next) ELSE next

prefixChk(prefix) == PrefixLow(prefix, 1, polymodStep(PrefixHigh(prefix, 1, 1)))

WordOf(c) ==
    IF \E i \in 1..32 : Bech32Alphabet[i] = c
    THEN (CHOOSE i \in 1..32 : Bech32Alphabet[i] = c) - 1
    ELSE -1

RECURSIVE WordsChk(_, _, _)
WordsChk(wordChars, i, chk) ==
    IF i > Len(wordChars) THEN chk
    ELSE LET next == Xor(polymodStep(chk), WordOf(wordChars[i]))
         IN IF next >= 0 THEN WordsChk(wordChars, i + 1, next) ELSE next

LastIndexOf(s, c) ==
    IF \E i \in 1..Len(s) : s[i] = c
    THEN CHOOSE i \in 1..Len(s) : s[i] = c /\ \A j \in (i + 1)..Len(s) : s[j] # c
    ELSE 0

\* bech32.decode(str): Ok([prefix, words]) or a thrown Error
bech32Decode(str) ==
    IF Len(str) < 8 THEN Throw("Error", "too short")
    ELSE IF Len(str) > 90 THEN Throw("Error", "Exceeds length limit")
    ELSE IF str # toLowerCase(str) /\ str # toUpperCase(str)
    THEN Throw("Error", "Mixed-case string")
    ELSE LET lowered == toLowerCase(str)
             split == LastIndexOf(lowered, "1")
             prefix == SubSeq(lowered, 1, split - 1)
             wordChars == SubSeq(lowered, split + 1, Len(lowered))
         IN IF split = 0 THEN Throw("Error", "No separator character")
            ELSE IF split = 1 THEN Throw("Error", "Missing prefix")
            ELSE IF Len(wordChars) < 6 THEN Throw("Error", "Data too short")
            ELSE IF \E i \in 1..Len(prefix) :
                        CharCode(prefix[i]) < 33 \/ CharCode(prefix[i]) > 126
            THEN Throw("Error", "Invalid prefix")
            ELSE IF \E i \in 1..Len(wordChars) : WordOf(wordChars[i]) < 0
            THEN Throw("Error", "Unknown character")
            ELSE IF WordsChk(wordChars, 1, prefixChk(prefix)) # 1
            THEN Throw("Error", "Invalid checksum")
            ELSE Ok([prefix |-> prefix,
                     words |-> [i \in 1..(Len(wordChars) - 6) |-> WordOf(wordChars[i])]])

\* bech32.fromWords(words): regroup 5-bit words into bytes, strict padding
RECURSIVE ConvertWords(_, _, _, _, _)
ConvertWords(words, i, acc, bits, result) ==
    IF i > Len(words)
    THEN IF bits >= 5 THEN Throw("Error", "Excess padding")
         ELSE IF acc # 0 THEN Throw("Error", "Non-zero padding")
         ELSE Ok(result)
    ELSE LET v == acc * 32 + words[i]
             n == bits + 5
         IN IF n >= 8
            THEN ConvertWords(words, i + 1, v % (2 ^ (n - 8)), n - 8,
                              Append(result, v \div (2 ^ (n - 8))))
            ELSE ConvertWords(words, i + 1, v, n, result)

bech32ToBytes(str) ==
    LET decoded == bech32Decode(str)
    IN IF ~decoded.ok THEN decoded ELSE ConvertWords(decoded.v.words, 1, 0, 0, <<>>)

valueToAddress(v) ==
    IF v.typeof = "string"
    THEN LET viaBech32 == bech32ToBytes(v.s)
         IN IF viaBech32.ok THEN viaBech32 ELSE hexToBytes(v.s)
    ELSE Throw("ArgValueError", "Value is not an address")

-----------------------------------------------------------------------------
(* Type inference, UtxoRef *)

valueToUndefined(v) ==
    IF v.typeof = "boolean" THEN Ok([type |-> "Bool", value |-> v.b])
    ELSE IF v.typeof = "number"
    THEN LET n == numberToBigint(v)
         IN IF ~n.ok THEN n ELSE Ok([type |-> "Int", value |-> n.v])
    ELSE IF v.typeof = "string" THEN Ok([type |-> "String", value |-> v.s])
    ELSE Throw("ArgValueError", "Can't infer type for value")

\* s.split("#")
RECURSIVE SplitFrom(_, _, _, _)
SplitFrom(s, sep, i, cur) ==
    IF i > Len(s) THEN <<cur>>
    ELSE IF s[i] = sep THEN <<cur>> \o SplitFrom(s, sep, i + 1, <<>>)
    ELSE SplitFrom(s, sep, i + 1, Append(cur, s[i]))

split(s, sep) == SplitFrom(s, sep, 1, <<>>)

stringToUtxoRef(s) ==
    LET parts == split(s, "#")
    IN IF Len(parts) # 2 THEN Throw("ArgValueError", "Invalid utxo ref")
       ELSE LET txid == hexToBytes(parts[1])
                index == parseInt(parts[2], 10)
            IN IF ~txid.ok THEN txid
               ELSE IF index.nan THEN Throw("ArgValueError", "Invalid utxo ref")
               ELSE Ok([txid |-> txid.v, index |-> index.n])

valueToUtxoRef(v) ==
    IF v.typeof = "string" THEN stringToUtxoRef(v.s)
    ELSE Throw("ArgValueError", "Value is not utxo ref")

utxoRefToValue(x) == bytesToHex(x.txid) \o <<"#">> \o numberToString(x.index)

-----------------------------------------------------------------------------
(* ArgValue: factories (types.ts) and the codec entry points *)

Type == {"Int", "Bool", "Bytes", "Address", "UtxoRef", "Undefined"}

\* BigInt(value) of a host number: a RangeError unless it is an integer
BigIntOf(x) ==
    IF x.int THEN Ok(x.v) ELSE Throw("RangeError", "cannot be converted to a BigInt")

fromNumber(v) ==
    LET big == IF v.typeof = "number" THEN BigIntOf(v) ELSE Ok(v.v)
    IN IF ~big.ok THEN big ELSE Ok([type |-> "Int", value |-> big.v])

fromString(s) == [type |-> "String", value |-> s]

fromBool(b) == [type |-> "Bool", value |-> b]

fromBytes(bytes) == [type |-> "Bytes", value |-> bytes]

fromAddress(bytes) == [type |-> "Address", value |-> bytes]

fromUtxoRef(ref) == [type |-> "UtxoRef", value |-> ref]

fromUtxoSet(set) == [type |-> "UtxoSet", value |-> set]

createIntArg(v) == fromNumber(v)

createBoolArg(b) == fromBool(b)

createStringArg(s) == fromString(s)

createBytesArg(bytes) == fromBytes(bytes)

createAddressArg(bytes) == fromAddress(bytes)

createUtxoRefArg(txid, index) == fromUtxoRef([txid |-> txid, index |-> index])

createCustomArg(constructorIndex, fields) ==
    IF ~constructorIndex.int \/ constructorIndex.v.neg
    THEN Throw("ArgValueError", "Constructor index must be a non-negative integer")
    ELSE Ok([constructor |-> constructorIndex, fields |-> fields])

\* the type guard of CustomArgValue: a plain object with constructor and fields
isCustomArgValue(v) == "constructor" \in DOMAIN v /\ "fields" \in DOMAIN v

\* the outcome of mapping a throwing function over an array: the first throw wins
FirstThrow(outcomes) ==
    outcomes[CHOOSE i \in DOMAIN outcomes :
                 ~outcomes[i].ok /\ \A j \in 1..(i - 1) : outcomes[j].ok]

MapOutcome(outcomes) ==
    IF \E i \in DOMAIN outcomes : ~outcomes[i].ok THEN FirstThrow(outcomes)
    ELSE Ok([i \in DOMAIN outcomes |-> outcomes[i].v])

utxoToValue(utxo) ==
    JsObject([ref |-> JsString(utxoRefToValue(utxo.ref)),
              address |-> JsString(bytesToHex(utxo.address)),
              datum |-> utxo.datum,
              assets |-> utxo.assets,
              script |-> utxo.script])

primitiveToJson(v) ==
    CASE v.type = "Int" -> Ok(bigintToValue(v.value))
      [] v.type = "Bool" -> Ok(JsBoolean(v.value))
      [] v.type = "String" -> Ok(JsString(v.value))
      [] v.type = "Bytes" -> Ok(JsString(<<"0", "x">> \o bytesToHex(v.value)))
      [] v.type = "Address" -> Ok(JsString(bytesToHex(v.value)))
      [] v.type = "UtxoSet" ->
            Ok(JsArray([i \in DOMAIN v.value |-> utxoToValue(v.value[i])]))
      [] v.type = "UtxoRef" -> Ok(JsString(utxoRefToValue(v.value)))
      [] OTHER -> Throw("ArgValueError", "Unknown ArgValue type")

RECURSIVE toJsonReversed(_)
toJsonReversed(v) ==
    IF isCustomArgValue(v)
    THEN LET n == Len(v.fields)
             fields == MapOutcome([i \in 1..n |-> toJsonReversed(v.fields[n + 1 - i])])
         IN IF ~fields.ok THEN fields
            ELSE Ok(JsObject([constructor |-> v.constructor,
                              fields |-> JsArray(fields.v)]))
    ELSE primitiveToJson(v)

RECURSIVE toJson(_)
toJson(v) ==
    IF isCustomArgValue(v)
    THEN LET fields == MapOutcome([i \in DOMAIN v.fields |-> toJson(v.fields[i])])
         IN IF ~fields.ok THEN fields
            ELSE Ok(JsObject([constructor |-> v.constructor,
                              fields |-> JsArray(fields.v)]))
    ELSE primitiveToJson(v)

Wrap(type, outcome) ==
    IF ~outcome.ok THEN outcome ELSE Ok([type |-> type, value |-> outcome.v])

fromJson(v, t) ==
    CASE t = "Int" -> Wrap("Int", valueToBigint(v))
      [] t = "Bool" -> Wrap("Bool", valueToBool(v))
      [] t = "Bytes" -> Wrap("Bytes", valueToBytes(v))
      [] t = "Address" -> Wrap("Address", valueToAddress(v))
      [] t = "UtxoRef" -> Wrap("UtxoRef", valueToUtxoRef(v))
      [] t = "Undefined" -> valueToUndefined(v)
      [] OTHER -> Throw("ArgValueError", "Target type not supported")

-----------------------------------------------------------------------------
(* Custom values parsed from JSON *)

\* what a member every object inherits evaluates to (Object, Array, ...)
JsFunction == [typeof |-> "function"]

\* value && typeof value === "object"
IsObject(v) == v.typeof = "object" /\ ~v.isNull

\* "constructor" in value: every object has the member, its own or inherited
InConstructor(v) == IsObject(v)

\* value.constructor
ConstructorOf(v) ==
    IF IsPlainObject(v) /\ "constructor" \in DOMAIN v.props
    THEN v.props.constructor ELSE JsFunction

\* "fields" in value
InFields(v) == IsPlainObject(v) /\ "fields" \in DOMAIN v.props

\* Number.isInteger(x) && !(x < 0)
IsNonNegativeInteger(x) == x.typeof = "number" /\ x.int /\ ~x.v.neg

RECURSIVE valueToCustomAnyIndex(_)
valueToCustomAnyIndex(v) ==
    IF ~IsObject(v)
    THEN Throw("ArgValueError", "Value is not a custom type object")
    ELSE IF ~InConstructor(v)
    THEN Throw("ArgValueError", "Custom type missing constructor field")
    ELSE IF ~InFields(v)
    THEN Throw("ArgValueError", "Custom type missing fields array")
    ELSE IF ~IsArray(v.props.fields)
    THEN Throw("ArgValueError", "Custom type fields must be an array")
    ELSE LET items == v.props.fields.items
             fields == MapOutcome(
                 [i \in DOMAIN items |->
                     IF IsObject(items[i]) /\ InConstructor(items[i]) /\ InFields(items[i])
                     THEN valueToCustomAnyIndex(items[i])
                     ELSE fromJson(items[i], "Undefined")])
         IN IF ~fields.ok THEN fields
            ELSE Ok([constructor |-> ConstructorOf(v), fields |-> fields.v])

RECURSIVE valueToCustom(_)
valueToCustom(v) ==
    IF ~IsObject(v)
    THEN Throw("ArgValueError", "Value is not a custom type object")
    ELSE IF ~InConstructor(v)
    THEN Throw("ArgValueError", "Custom type missing constructor field")
    ELSE IF ~IsNonNegativeInteger(ConstructorOf(v))
    THEN Throw("ArgValueError", "Custom type constructor must be a non-negative integer")
    ELSE IF ~InFields(v)
    THEN Throw("ArgValueError", "Custom type missing fields array")
    ELSE IF ~IsArray(v.props.fields)
    THEN Throw("ArgValueError", "Custom type fields must be an array")
    ELSE LET items == v.props.fields.items
             fields == MapOutcome(
                 [i \in DOMAIN items |->
                     IF IsObject(items[i]) /\ InConstructor(items[i]) /\ InFields(items[i])
                     THEN valueToCustom(items[i])
                     ELSE fromJson(items[i], "Undefined")])
         IN IF ~fields.ok THEN fields
            ELSE Ok([constructor |-> ConstructorOf(v), fields |-> fields.v])

-----------------------------------------------------------------------------
(* The values the callers hand in *)

HexAlphabet == {"0", "9", "a", "F", "x", "g"}

HexTexts == SeqsUpTo(HexAlphabet, MaxHexLen)

HexInputs == HexTexts \cup {<<"0", "x">> \o h : h \in HexTexts}

ByteAlphabet == {0, 1, 10, 16, 171, 255}

ByteSeqs == SeqsUpTo(ByteAlphabet, MaxBytesLen)

\* five bytes whose hex text, 0671f4f605, is also a well-formed bech32 string
Bech32LookingBytes == <<6, 113, 244, 246, 5>>

AddressBytes == ByteSeqs \cup {Bech32LookingBytes}

\* magnitudes around every boundary of the codec: 2^53, 2^127, 2^128
HeadBytes == {1, 31, 32, 127, 128, 255}

TailShapes == {<<0, 0>>, <<0, 1>>, <<255, 255>>, <<255, 254>>}

Mags ==
    {<<>>} \cup {<<h>> : h \in HeadBytes}
        \cup {<<h>> \o Repeat(t[1], n - 1) \o <<t[2]>> :
                  h \in HeadBytes, t \in TailShapes, n \in 1..(MaxMagLen - 1)}

Bigs == {Big(neg, m) : neg \in BOOLEAN, m \in Mags}

\* the integers of Bigs that a double holds exactly
IsExactDouble(m) ==
    \/ MagLe(m, MAX_SAFE_INTEGER.mag)
    \/ \A i \in 2..Len(m) : m[i] = 0

NumberInputs ==
    {JsNumber(b) : b \in {x \in Bigs : IsExactDouble(x.mag)}}
        \cup {JsFraction(Big(neg, m)) : neg \in BOOLEAN, m \in {<<>>, <<1>>}}

BigintInputs == {JsBigint(b) : b \in Bigs}

\* texts of 15, 16 and 17 bytes of hex, with and without 0x, in both cases
WideHexTexts ==
    {p \o <<c[1], c[2]>> \o Repeat(f, 2 * n - 4) \o <<c[3], c[4]>> :
        p \in {<<>>, <<"0", "x">>},
        c \in {<<"0", "0", "0", "0">>, <<"0", "0", "0", "1">>, <<"7", "f", "f", "f">>,
               <<"8", "0", "0", "0">>, <<"8", "0", "0", "1">>, <<"f", "f", "f", "f">>,
               <<"F", "F", "f", "e">>, <<"0", "1", "0", "0">>, <<"a", "9", "9", "a">>},
        f \in {"0", "f", "9"},
        n \in (I128Bytes - 1)..(I128Bytes + 1)}

IndexAlphabet == {"0", "1", "7", "-", "+", " ", "x", "."}

IndexTexts == SeqsUpTo(IndexAlphabet, MaxIndexLen)

TxidTexts == {<<>>, <<"a", "b">>, <<"0", "x", "0", "1">>, <<"a">>, <<"z", "z">>}

UtxoRefTexts ==
    TxidTexts
        \cup {t \o <<"#">> \o i : t \in TxidTexts, i \in IndexTexts}
        \cup {t \o <<"#">> \o i \o <<"#">> \o j :
                  t \in TxidTexts, i \in {<<>>, <<"1">>}, j \in {<<>>, <<"0">>}}

BoolTexts ==
    {<<"t", "r", "u", "e">>, <<"f", "a", "l", "s", "e">>, <<"T", "r", "u", "e">>,
     <<"m", "a", "y", "b", "e">>, <<"1">>, <<>>}

StringInputs ==
    {JsString(t) : t \in WideHexTexts \cup UtxoRefTexts \cup BoolTexts \cup HexTexts}

\* null, undefined, a boolean, a byte buffer, an envelope, an array
OtherInputs ==
    {JsNull, JsUndefined, JsBoolean(TRUE), JsBoolean(FALSE)}
        \cup {JsUint8Array(b) : b \in {<<>>, <<171>>}}
        \cup {JsObject([content |-> <<"a", "b">>, encoding |-> e]) : e \in {"hex", "utf8"}}
        \cup {JsObject([tx |-> 1]), JsArray(<<>>)}

UtxoIndexes == {0, 1, 42}

-----------------------------------------------------------------------------
(* The codec as its callers drive it: build, encode, decode *)

Idle(f, x) ==
    /\ pc = "idle"
    /\ fn = f
    /\ input = x
    /\ value = None
    /\ json = None
    /\ target = "Undefined"
    /\ restored = None
    /\ hexLog = <<>>
    /\ heap = <<>>
    /\ requests = <<>>
    /\ settled = <<>>

\* the caller is about to call a factory, or fromJson on a JSON value of its own
Init ==
    \/ \E v \in NumberInputs : Idle("createIntArg", v)
    \/ \E v \in BigintInputs : Idle("createIntArg", v)
    \/ \E b \in BOOLEAN : Idle("createBoolArg", b)
    \/ \E t \in BoolTexts \cup UtxoRefTexts \cup HexTexts : Idle("createStringArg", t)
    \/ \E b \in ByteSeqs : Idle("createBytesArg", b)
    \/ \E b \in AddressBytes : Idle("createAddressArg", b)
    \/ \E txid \in ByteSeqs, index \in UtxoIndexes :
           Idle("createUtxoRefArg", [txid |-> txid, index |-> index])
    \/ \E x \in NumberInputs : Idle("fromJson", x)
    \/ \E x \in BigintInputs : Idle("fromJson", x)
    \/ \E x \in StringInputs : Idle("fromJson", x)
    \/ \E x \in OtherInputs : Idle("fromJson", x)

Built(f, outcome) ==
    /\ pc = "idle"
    /\ fn = f
    /\ value' = outcome
    /\ pc' = "built"
    /\ UNCHANGED <<fn, input, json, target, restored, hexLog, heap, requests, settled>>

CreateIntArg == Built("createIntArg", createIntArg(input))

CreateBoolArg == Built("createBoolArg", Ok(createBoolArg(input)))

CreateStringArg == Built("createStringArg", Ok(createStringArg(input)))

CreateBytesArg == Built("createBytesArg", Ok(createBytesArg(input)))

CreateAddressArg == Built("createAddressArg", Ok(createAddressArg(input)))

CreateUtxoRefArg ==
    Built("createUtxoRefArg", Ok(createUtxoRefArg(input.txid, input.index)))

ToJson ==
    /\ pc = "built"
    /\ value.ok
    /\ json' = toJson(value.v)
    /\ pc' = "encoded"
    /\ UNCHANGED <<fn, input, value, target, restored, hexLog, heap, requests, settled>>

\* fromJson on what toJson returned
FromJsonEncoded ==
    /\ pc = "encoded"
    /\ json.ok
    /\ \E t \in Type :
          /\ target' = t
          /\ restored' = fromJson(json.v, t)
    /\ pc' = "decoded"
    /\ UNCHANGED <<fn, input, value, json, hexLog, heap, requests, settled>>

\* fromJson on a JSON value of the caller
FromJsonInput ==
    /\ pc = "idle"
    /\ fn = "fromJson"
    /\ json' = Ok(input)
    /\ \E t \in Type :
          /\ target' = t
          /\ restored' = fromJson(input, t)
    /\ pc' = "decoded"
    /\ UNCHANGED <<fn, input, value, hexLog, heap, requests, settled>>

Next ==
    \/ CreateIntArg
    \/ CreateBoolArg
    \/ CreateStringArg
    \/ CreateBytesArg
    \/ CreateAddressArg
    \/ CreateUtxoRefArg
    \/ ToJson
    \/ FromJsonEncoded
    \/ FromJsonInput

Spec == Init /\ [][Next]_vars

-----------------------------------------------------------------------------
(* The hex helpers as their callers drive them: one call, then its inverse *)

InitHex ==
    \/ \E s \in HexInputs : Idle("hexToBytes", s)
    \/ \E b \in ByteSeqs : Idle("bytesToHex", b)

Called(f, arg, ret) ==
    /\ hexLog' = Append(hexLog, [fn |-> f, arg |-> arg, ret |-> ret])
    /\ UNCHANGED <<pc, fn, input, value, json, target, restored, heap, requests, settled>>

HexToBytes ==
    \/ /\ hexLog = <<>>
       /\ fn = "hexToBytes"
       /\ Called("hexToBytes", input, hexToBytes(input))
    \/ /\ Len(hexLog) = 1
       /\ hexLog[1].fn = "bytesToHex"
       /\ Called("hexToBytes", hexLog[1].ret.v, hexToBytes(hexLog[1].ret.v))

BytesToHex ==
    \/ /\ hexLog = <<>>
       /\ fn = "bytesToHex"
       /\ Called("bytesToHex", input, Ok(bytesToHex(input)))
    \/ /\ Len(hexLog) = 1
       /\ hexLog[1].fn = "hexToBytes"
       /\ hexLog[1].ret.ok
       /\ Called("bytesToHex", hexLog[1].ret.v, Ok(bytesToHex(hexLog[1].ret.v)))

NextHex == HexToBytes \/ BytesToHex

SpecHex == InitHex /\ [][NextHex]_vars

-----------------------------------------------------------------------------
(* Custom values as their callers build and encode them *)

MaxFields == 2      \* longest field list of a Custom value

\* one primitive field of each variant and of each wire form of Int
PrimitiveFields ==
    <<createIntArg(JsNumber(Big(FALSE, <<7>>))).v,
      createIntArg(JsBigint(Big(TRUE, <<128, 0, 0, 0, 0, 0, 0, 0>>))).v,
      createBoolArg(TRUE),
      createStringArg(<<"a", "b">>),
      createBytesArg(<<171>>),
      createAddressArg(<<1, 16>>),
      createUtxoRefArg(<<171>>, 1)>>

ConstructorIndexes ==
    {JsNumber(Big(FALSE, <<>>)), JsNumber(Big(FALSE, <<1>>)), JsNumber(Big(FALSE, <<121>>)),
     JsNumber(Big(TRUE, <<1>>)), JsFraction(Big(FALSE, <<1>>))}

\* Shapes name the Custom values the callers build: a flat shape is a
\* constructor index over primitive fields, given by their positions in
\* PrimitiveFields
FlatShapes == [c : {1, 121}, f : SeqsUpTo({3, 5}, MaxFields)]

FlatCustom(shape) ==
    createCustomArg(JsNumber(Big(FALSE, <<shape.c>>)),
                    [i \in DOMAIN shape.f |-> PrimitiveFields[shape.f[i]]]).v

\* a field is a primitive, a flat Custom value, or a Custom value that holds
\* a primitive and a flat Custom value
PrimitiveShapes ==
    {[kind |-> "primitive", p |-> i, inner |-> [c |-> 1, f |-> <<>>]] :
        i \in DOMAIN PrimitiveFields}

NestedShapes ==
    {[kind |-> "flat", p |-> 4, inner |-> s] : s \in {x \in FlatShapes : x.c = 1}}

DeepShapes ==
    {[kind |-> "deep", p |-> i, inner |-> s] :
        i \in DOMAIN PrimitiveFields, s \in FlatShapes}

FieldOf(shape) ==
    CASE shape.kind = "primitive" -> PrimitiveFields[shape.p]
      [] shape.kind = "flat" -> FlatCustom(shape.inner)
      [] shape.kind = "deep" ->
            createCustomArg(JsNumber(Big(FALSE, <<>>)),
                            <<PrimitiveFields[shape.p], FlatCustom(shape.inner)>>).v

FieldListShapes ==
    SeqsUpTo(PrimitiveShapes, MaxFields)
        \cup {f \in SeqsUpTo({s \in PrimitiveShapes : s.p = 4} \cup NestedShapes, MaxFields) :
                 \E i \in DOMAIN f : f[i].kind = "flat"}
        \cup {<<d>> : d \in DeepShapes}
        \cup {<<d, s>> : d \in DeepShapes, s \in {x \in PrimitiveShapes : x.p = 3}}

\* JSON objects a caller hands to valueToCustom, named by shapes: what the
\* constructor member holds, and what each item of fields is
IndexKinds == {"zero", "one", "minus", "fraction", "text", "absent"}

IndexOf(kind) ==
    CASE kind = "zero" -> JsNumber(Big(FALSE, <<>>))
      [] kind = "one" -> JsNumber(Big(FALSE, <<1>>))
      [] kind = "minus" -> JsNumber(Big(TRUE, <<1>>))
      [] kind = "fraction" -> JsFraction(Big(FALSE, <<1>>))
      [] kind = "text" -> JsString(<<"1">>)

\* {constructor: ..., fields: [...]}, the constructor member left out if absent
CustomJson(kind, items) ==
    IF kind = "absent" THEN JsObject([fields |-> JsArray(items)])
    ELSE JsObject([constructor |-> IndexOf(kind), fields |-> JsArray(items)])

ItemShapes ==
    [kind : {"number", "boolean", "string", "null"}, c : {"zero"}, d : {"zero"}]
        \cup [kind : {"custom"}, c : {"zero", "minus", "fraction", "absent"}, d : {"zero"}]
        \cup [kind : {"nested"}, c : {"one", "minus"}, d : {"zero", "minus", "fraction"}]

ItemOf(shape) ==
    CASE shape.kind = "number" -> JsNumber(Big(FALSE, <<7>>))
      [] shape.kind = "boolean" -> JsBoolean(TRUE)
      [] shape.kind = "string" -> JsString(<<"0", "x", "a", "b">>)
      [] shape.kind = "null" -> JsNull
      [] shape.kind = "custom" -> CustomJson(shape.c, <<JsBoolean(FALSE)>>)
      [] shape.kind = "nested" -> CustomJson(shape.c, <<CustomJson(shape.d, <<>>)>>)

InitCustom ==
    \/ \E c \in ConstructorIndexes, shapes \in FieldListShapes :
           Idle("createCustomArg",
                [constructorIndex |-> c,
                 fields |-> [i \in DOMAIN shapes |-> FieldOf(shapes[i])]])
    \/ \E c \in IndexKinds, shapes \in SeqsUpTo(ItemShapes, MaxFields) :
           Idle("valueToCustom",
                CustomJson(c, [i \in DOMAIN shapes |-> ItemOf(shapes[i])]))
    \/ \E x \in OtherInputs : Idle("valueToCustom", x)
    \/ \E f \in {JsString(<<"a">>), JsNull} :
           Idle("valueToCustom",
                JsObject([constructor |-> JsNumber(Big(FALSE, <<1>>)), fields |-> f]))
    \/ Idle("valueToCustom", JsObject([constructor |-> JsNumber(Big(FALSE, <<1>>))]))

CreateCustomArg ==
    /\ pc = "idle"
    /\ fn = "createCustomArg"
    /\ value' = createCustomArg(input.constructorIndex, input.fields)
    /\ pc' = "built"
    /\ UNCHANGED <<fn, input, json, target, restored, hexLog, heap, requests, settled>>

ToJsonCustom ==
    /\ pc = "built"
    /\ fn = "createCustomArg"
    /\ value.ok
    /\ json' = toJson(value.v)
    /\ pc' = "encoded"
    /\ UNCHANGED <<fn, input, value, target, restored, hexLog, heap, requests, settled>>

\* valueToCustom on what toJson returned
ValueToCustomEncoded ==
    /\ pc = "encoded"
    /\ fn = "createCustomArg"
    /\ json.ok
    /\ restored' = valueToCustom(json.v)
    /\ pc' = "decoded"
    /\ UNCHANGED <<fn, input, value, json, target, hexLog, heap, requests, settled>>

\* valueToCustom on a JSON value of the caller
ValueToCustomInput ==
    /\ pc = "idle"
    /\ fn = "valueToCustom"
    /\ json' = Ok(input)
    /\ restored' = valueToCustom(input)
    /\ pc' = "decoded"
    /\ UNCHANGED <<fn, input, value, target, hexLog, heap, requests, settled>>

NextCustom ==
    \/ CreateCustomArg
    \/ ToJsonCustom
    \/ ValueToCustomEncoded
    \/ ValueToCustomInput

SpecCustom == InitCustom /\ [][NextCustom]_vars

-----------------------------------------------------------------------------
(* Cloning a Custom value and replacing fields of the clone by index.  An   *)
(* array is a reference into heap; a Custom object holds the reference of  *)
(* its field array, so that two objects over one array share every write.  *)

MaxReplacements == 2    \* most field replacements made on one clone

\* the fields a caller builds the original from, and replaces fields with
CloneFieldShapes ==
    {s \in PrimitiveShapes : s.p \in {1, 3, 4}}
        \cup {s \in NestedShapes : s.inner.f = <<3>>}

Replacements == <<createStringArg(<<"c", "l", "o", "n", "e", "d">>),
                  createIntArg(JsNumber(Big(FALSE, <<23, 112>>))).v>>

InitClone ==
    \E c \in {JsNumber(Big(FALSE, <<>>)), JsNumber(Big(FALSE, <<1>>))},
       shapes \in SeqsUpTo(CloneFieldShapes, MaxFields) :
        Idle("clone",
             [constructorIndex |-> c,
              fields |-> [i \in DOMAIN shapes |-> FieldOf(shapes[i])]])

\* new CustomArgValue(constructorIndex, fields): the object keeps the array
NewCustomArgValue(constructorIndex, ref) ==
    [constructorIndex |-> constructorIndex, fields |-> ref]

\* getField(index): undefined when out of range
getField(h, custom, index) ==
    IF index \in 1..Len(h[custom.fields]) THEN h[custom.fields][index] ELSE JsUndefined

\* the caller's array is allocated and the original built over it
Construct ==
    /\ pc = "idle"
    /\ fn = "clone"
    /\ heap' = <<input.fields>>
    /\ value' = [original |-> NewCustomArgValue(input.constructorIndex, 1),
                 clone |-> None,
                 replaced |-> <<>>]
    /\ pc' = "built"
    /\ UNCHANGED <<fn, input, json, target, restored, hexLog, requests, settled>>

CloneShared ==
    /\ pc = "built"
    /\ fn = "clone"
    /\ value' = [value EXCEPT
                    !.clone = NewCustomArgValue(value.original.constructorIndex,
                                                value.original.fields)]
    /\ pc' = "cloned"
    /\ UNCHANGED <<fn, input, json, target, restored, hexLog, heap, requests, settled>>

\* new CustomArgValue(original.constructorIndex, [...original.fields])
Clone ==
    /\ pc = "built"
    /\ fn = "clone"
    /\ heap' = Append(heap, heap[value.original.fields])
    /\ value' = [value EXCEPT
                    !.clone = NewCustomArgValue(value.original.constructorIndex,
                                                Len(heap) + 1)]
    /\ pc' = "cloned"
    /\ UNCHANGED <<fn, input, json, target, restored, hexLog, requests, settled>>

\* clone.fields[index] = field
ReplaceField ==
    /\ pc = "cloned"
    /\ Len(value.replaced) < MaxReplacements
    /\ \E index \in 1..Len(heap[value.clone.fields]), k \in DOMAIN Replacements :
          /\ heap' = [heap EXCEPT ![value.clone.fields][index] = Replacements[k]]
          /\ value' = [value EXCEPT
                          !.replaced = Append(@, [index |-> index,
                                                  field |-> Replacements[k]])]
    /\ UNCHANGED <<pc, fn, input, json, target, restored, hexLog, requests, settled>>

NextClone == Construct \/ Clone \/ ReplaceField

SpecClone == InitClone /\ [][NextClone]_vars

-----------------------------------------------------------------------------
(* Key casing of the argument marshaller (client.ts, convertArgsToJson) *)

MaxKeyLen == 3      \* longest argument key

IsLowerOrDigit(c) ==
    \/ CharCode(c) >= 97 /\ CharCode(c) <= 122
    \/ CharCode(c) >= 48 /\ CharCode(c) <= 57

IsUpper(c) == CharCode(c) >= 65 /\ CharCode(c) <= 90

\* key.replace(/([a-z0-9])([A-Z])/gi, "$1_$2") from position i on: with the
\* i flag either group takes a letter of any case
RECURSIVE ReplaceIgnoreCaseFrom(_, _)
ReplaceIgnoreCaseFrom(key, i) ==
    IF i > Len(key) THEN <<>>
    ELSE IF /\ i < Len(key)
            /\ (IsLowerOrDigit(key[i]) \/ IsUpper(key[i]))
            /\ (IsUpper(key[i + 1]) \/ (IsLowerOrDigit(key[i + 1]) /\ CharCode(key[i + 1]) >= 97))
    THEN <<key[i], "_", key[i + 1]>> \o ReplaceIgnoreCaseFrom(key, i + 2)
    ELSE <<key[i]>> \o ReplaceIgnoreCaseFrom(key, i + 1)

\* key.replace(/([a-z0-9])([A-Z])/g, "$1_$2") from position i on: matches
\* are found left to right and do not overlap
RECURSIVE ReplaceFrom(_, _)
ReplaceFrom(key, i) ==
    IF i > Len(key) THEN <<>>
    ELSE IF i < Len(key) /\ IsLowerOrDigit(key[i]) /\ IsUpper(key[i + 1])
    THEN <<key[i], "_", key[i + 1]>> \o ReplaceFrom(key, i + 2)
    ELSE <<key[i]>> \o ReplaceFrom(key, i + 1)

newKeyIgnoreCase(key, force_snake_case) ==
    IF force_snake_case THEN toLowerCase(ReplaceIgnoreCaseFrom(key, 1)) ELSE key

\* the key an argument is sent under
newKey(key, force_snake_case) ==
    IF force_snake_case THEN toLowerCase(ReplaceFrom(key, 1)) ELSE key

KeyAlphabet == {"a", "z", "A", "Z", "0", "9", "_", "-"}

Keys == SeqsUpTo(KeyAlphabet, MaxKeyLen)

InitCasing == \E key \in Keys : Idle("newKey", key)

\* the transform applied to a key of the caller
ApplyCasing ==
    /\ pc = "idle"
    /\ fn = "newKey"
    /\ value' = Ok(newKey(input, TRUE))
    /\ pc' = "cased"
    /\ UNCHANGED <<fn, input, json, target, restored, hexLog, heap, requests, settled>>

\* the transform applied to its own result
ReapplyCasing ==
    /\ pc = "cased"
    /\ restored' = Ok(newKey(value.v, TRUE))
    /\ pc' = "recased"
    /\ UNCHANGED <<fn, input, value, json, target, hexLog, heap, requests, settled>>

NextCasing == ApplyCasing \/ ReapplyCasing

SpecCasing == InitCasing /\ [][NextCasing]_vars

-----------------------------------------------------------------------------
(* Argument marshaller (client.ts, convertArgsToJson).  An argument map is *)
(* the sequence of its entries [key, value] in insertion order; an ArgValue *)
(* is the record the factories return, any other value a JS value.          *)

\* a host UtxoRef object {txid, index}
JsUtxoRef(ref) == [typeof |-> "object", isNull |-> FALSE, ref |-> ref]

\* value && typeof value === "object" && "type" in value && "value" in value
IsTagged(v) ==
    \/ "type" \in DOMAIN v /\ "value" \in DOMAIN v
    \/ /\ "props" \in DOMAIN v
       /\ "type" \in DOMAIN v.props
       /\ "value" \in DOMAIN v.props

\* toJson of a tagged value: an ArgValue, or a plain object whose type names
\* no variant, which the switch of toJson rejects
toJsonTagged(v) ==
    IF "props" \in DOMAIN v THEN Throw("ArgValueError", "Unknown ArgValue type")
    ELSE toJson(v)

\* ArgValue.from(value)
from(v) ==
    IF "typeof" \notin DOMAIN v
    THEN Throw("Error", "Cannot convert value to PrimitiveArgValue")
    ELSE IF v.typeof = "string" THEN Ok(fromString(v.s))
    ELSE IF v.typeof \in {"number", "bigint"} THEN fromNumber(v)
    ELSE IF v.typeof = "boolean" THEN Ok(fromBool(v.b))
    ELSE IF IsUint8Array(v) THEN Ok(fromBytes(v.u8))
    ELSE IF IsObject(v) /\ "ref" \in DOMAIN v THEN Ok(fromUtxoRef(v.ref))
    ELSE Throw("Error", "Cannot convert value to PrimitiveArgValue")

\* try { return toJson(ArgValue.from(value)) }: the outcome of the try block
TryFrom(v) == LET arg == from(v) IN IF arg.ok THEN toJson(arg.v) ELSE arg

\* the outcome of converting every member of an object
MapProps(converted) ==
    IF \E k \in DOMAIN converted : ~converted[k].ok
    THEN converted[CHOOSE k \in DOMAIN converted : ~converted[k].ok]
    ELSE Ok(JsObject([k \in DOMAIN converted |-> converted[k].v]))

RECURSIVE convertValue(_)
convertValue(v) ==
    IF IsTagged(v) THEN toJsonTagged(v)
    ELSE IF isCustomArgValue(v) THEN toJson(v)
    ELSE IF IsArray(v)
    THEN LET items == MapOutcome(
                 [i \in DOMAIN v.items |->
                     IF IsTagged(v.items[i]) THEN toJsonTagged(v.items[i])
                     ELSE IF isCustomArgValue(v.items[i]) THEN toJson(v.items[i])
                     ELSE IF TryFrom(v.items[i]).ok THEN TryFrom(v.items[i])
                     ELSE convertValue(v.items[i])])
         IN IF items.ok THEN Ok(JsArray(items.v)) ELSE items
    ELSE IF TryFrom(v).ok THEN TryFrom(v)
    ELSE IF IsPlainObject(v)
    THEN MapProps([k \in DOMAIN v.props |-> convertValue(v.props[k])])
    ELSE Ok(v)

\* result[key] = value: a key already there keeps its place
Put(entries, key, v) ==
    IF \E i \in DOMAIN entries : entries[i].key = key
    THEN [i \in DOMAIN entries |->
             IF entries[i].key = key THEN [key |-> key, value |-> v] ELSE entries[i]]
    ELSE Append(entries, [key |-> key, value |-> v])

RECURSIVE ConvertEntries(_, _, _, _)
ConvertEntries(args, force_snake_case, i, result) ==
    IF i > Len(args) THEN Ok(result)
    ELSE LET converted == convertValue(args[i].value)
         IN IF ~converted.ok THEN converted
            ELSE ConvertEntries(args, force_snake_case, i + 1,
                     Put(result, newKey(args[i].key, force_snake_case), converted.v))

convertArgsToJsonNoCasing(args, force_snake_case) ==
    ConvertEntries(args, FALSE, 1, <<>>)

convertArgsToJson(args, force_snake_case) ==
    ConvertEntries(args, force_snake_case, 1, <<>>)

-----------------------------------------------------------------------------
(* TRP client (client.ts): resolve, submit, makeJsonRpcRequest.  A call is *)
(* in two steps, up to the await of fetch and from its settlement on.      *)

MaxArgs == 2

\* top-level keys of the args of a request
ArgKeys == {<<"a", "B">>, <<"a", "_", "b">>, <<"x">>, <<"i", "9", "Z">>}

\* the values a caller passes: ArgValues, host values, containers, and values
\* ArgValue.from rejects
ArgKinds == {"int", "bigint", "string", "bytes", "utxoRef", "custom", "array",
             "nested", "null", "undefined", "fraction", "tagged"}

LaterArgKinds == {"int", "nested", "undefined"}

ArgOf(kind) ==
    CASE kind = "int" -> [type |-> "Int", value |-> Big(FALSE, <<42>>)]
      [] kind = "bigint" -> JsBigint(Big(TRUE, <<1, 0>>))
      [] kind = "string" -> JsString(<<"h", "i">>)
      [] kind = "bytes" -> [type |-> "Bytes", value |-> <<222, 173>>]
      [] kind = "utxoRef" -> JsUtxoRef([txid |-> <<171>>, index |-> 1])
      [] kind = "custom" ->
            createCustomArg(JsNumber(Big(FALSE, <<1>>)),
                            <<[type |-> "Bool", value |-> TRUE]>>).v
      [] kind = "array" ->
            JsArray(<<JsBoolean(TRUE), JsObject([innerKey |-> JsNull])>>)
      [] kind = "nested" -> JsObject([innerKey |-> JsNumber(Big(FALSE, <<1>>))])
      [] kind = "null" -> JsNull
      [] kind = "undefined" -> JsUndefined
      [] kind = "fraction" -> JsFraction(Big(FALSE, <<1>>))
      [] kind = "tagged" ->
            JsObject([type |-> JsString(<<"F", "o", "o">>),
                      value |-> JsNumber(Big(FALSE, <<1>>))])

\* the entries of an object, keys distinct, in insertion order
ArgShapes ==
    {shapes \in SeqsUpTo(ArgKeys \X ArgKinds, MaxArgs) :
        /\ \A i, j \in DOMAIN shapes : i # j => shapes[i][1] # shapes[j][1]
        /\ \A i \in DOMAIN shapes : i > 1 => shapes[i][2] \in LaterArgKinds}

EntriesOf(shapes) ==
    [i \in DOMAIN shapes |-> [key |-> shapes[i][1], value |-> ArgOf(shapes[i][2])]]

\* options.envArgs: left out, empty, or holding keys that casing would rewrite
EnvShapes == {"none", "empty", "camel", "two", "tagged"}

EnvArgsOf(shape) ==
    [given |-> shape # "none",
     entries |->
        CASE shape = "camel" -> EntriesOf(<<<< <<"a", "B">>, "string">>>>)
          [] shape = "two" -> EntriesOf(<<<< <<"N", "e", "t">>, "int">>,
                                          << <<"x">>, "nested">>>>)
          [] shape = "tagged" -> EntriesOf(<<<< <<"x">>, "tagged">>>>)
          [] OTHER -> <<>>]

\* what fetch rejects with
FetchErrors ==
    {[error |-> "TypeError", message |-> "fetch failed", mentionsFetch |-> TRUE],
     [error |-> "TypeError", message |-> "Load failed", mentionsFetch |-> FALSE],
     [error |-> "AbortError", message |-> "The operation was aborted",
      mentionsFetch |-> FALSE]}

Statuses == {199, 200, 204, 299, 300, 404, 500}

StatusTexts == {"", "OK", "Not Found"}

BodyKinds == {"invalid", "null", "number", "empty", "result", "resultNull",
              "error", "errorNoData", "errorAndResult", "errorNull",
              "errorText", "errorEmptyText", "errorFalse"}

ResolveResult == JsObject([tx |-> JsString(<<"8", "4">>), hash |-> JsString(<<"a", "b">>)])

ErrorObject ==
    JsObject([message |-> JsString(<<"b", "a", "d">>),
              data |-> JsObject([code |-> JsNumber(Big(FALSE, <<1>>))])])

BodyOf(kind) ==
    CASE kind = "null" -> JsNull
      [] kind = "number" -> JsNumber(Big(FALSE, <<5>>))
      [] kind = "empty" -> JsObject(<<>>)
      [] kind = "result" -> JsObject([result |-> ResolveResult])
      [] kind = "resultNull" -> JsObject([result |-> JsNull])
      [] kind = "error" -> JsObject([error |-> ErrorObject])
      [] kind = "errorNoData" ->
            JsObject([error |-> JsObject([message |-> JsString(<<"n", "o">>)])])
      [] kind = "errorAndResult" ->
            JsObject([error |-> ErrorObject, result |-> ResolveResult])
      [] kind = "errorNull" -> JsObject([error |-> JsNull, result |-> ResolveResult])
      [] kind = "errorText" -> JsObject([error |-> JsString(<<"b", "o", "o", "m">>)])
      [] kind = "errorEmptyText" ->
            JsObject([error |-> JsString(<<>>), result |-> ResolveResult])
      [] kind = "errorFalse" -> JsObject([error |-> JsBoolean(FALSE)])
      [] OTHER -> JsUndefined

Rejects(error) ==
    [kind |-> "reject", error |-> error, status |-> 0, statusText |-> "",
     parses |-> FALSE, body |-> JsUndefined]

Responds(status, statusText, body) ==
    [kind |-> "response", error |-> None, status |-> status,
     statusText |-> statusText, parses |-> body # "invalid", body |-> BodyOf(body)]

\* a client and one call on it
Call(args, envArgs, net) ==
    [endpoint |-> "https://trp.example/rpc",
     tir |-> [version |-> "v1alpha9", bytecode |-> "abcd", encoding |-> "hex"],
     args |-> args,
     envArgs |-> envArgs,
     params |-> [tx |-> [content |-> "84a4", encoding |-> "hex"], witnesses |-> <<>>],
     id |-> "uuid-1",
     net |-> net]

InitClient ==
    \/ \E shapes \in ArgShapes, env \in EnvShapes :
         \E net \in {Responds(200, "OK", "result"), Responds(404, "Not Found", "error")} :
             Idle("resolve", Call(EntriesOf(shapes), EnvArgsOf(env), net))
    \/ \E f \in {"resolve", "submit"}, error \in FetchErrors :
           Idle(f, Call(EntriesOf(<<<< <<"a", "B">>, "int">>>>), EnvArgsOf("none"),
                        Rejects(error)))
    \/ \E f \in {"resolve", "submit"}, status \in Statuses, text \in StatusTexts,
          body \in BodyKinds :
           Idle(f, Call(EntriesOf(<<<< <<"a", "B">>, "int">>>>), EnvArgsOf("none"),
                        Responds(status, text, body)))

\* a rejected call: the error class, the parts of its message, its members
Rejected(cls, message, members) ==
    [ok |-> FALSE, error |-> cls, message |-> message, members |-> members]

\* JSON.stringify leaves out the members whose value is undefined
Stringified(entries) == SelectSeq(entries, LAMBDA e : e.value # JsUndefined)

\* the body of the request: {jsonrpc, method, params, id}
Body(method, params, id) ==
    [jsonrpc |-> "2.0", method |-> method, params |-> params, id |-> id]

\* the request fetch sends
Request(endpoint, body) == [endpoint |-> endpoint, method |-> "POST", body |-> body]

\* a resolve that marshals the envArgs only after the request has been issued
ResolveEnvArgsLate ==
    /\ pc = "idle"
    /\ fn = "resolve"
    /\ LET args == convertArgsToJson(input.args, TRUE)
           envArgs == IF input.envArgs.given
                      THEN convertArgsToJson(input.envArgs.entries, FALSE)
                      ELSE Ok(<<>>)
           params == IF input.envArgs.given /\ envArgs.ok
                     THEN [tir |-> input.tir, args |-> Stringified(args.v),
                           env |-> Stringified(envArgs.v)]
                     ELSE [tir |-> input.tir, args |-> Stringified(args.v)]
       IN IF ~args.ok
          THEN /\ settled' = Append(settled, args)
               /\ pc' = "done"
               /\ UNCHANGED requests
          ELSE /\ requests' = Append(requests,
                       Request(input.endpoint, Body("trp.resolve", params, input.id)))
               /\ IF envArgs.ok
                  THEN pc' = "sending" /\ UNCHANGED settled
                  ELSE pc' = "done" /\ settled' = Append(settled, envArgs)
    /\ UNCHANGED <<fn, input, value, json, target, restored, hexLog, heap>>

\* resolve up to the await: marshal args and envArgs, build params, send
Resolve ==
    /\ pc = "idle"
    /\ fn = "resolve"
    /\ LET args == convertArgsToJson(input.args, TRUE)
           envArgs == IF input.envArgs.given
                      THEN convertArgsToJson(input.envArgs.entries, FALSE)
                      ELSE Ok(<<>>)
           params == IF input.envArgs.given
                     THEN [tir |-> input.tir, args |-> Stringified(args.v),
                           env |-> Stringified(envArgs.v)]
                     ELSE [tir |-> input.tir, args |-> Stringified(args.v)]
       IN IF ~args.ok \/ ~envArgs.ok
          THEN /\ settled' = Append(settled, IF ~args.ok THEN args ELSE envArgs)
               /\ pc' = "done"
               /\ UNCHANGED requests
          ELSE /\ requests' = Append(requests,
                       Request(input.endpoint, Body("trp.resolve", params, input.id)))
               /\ pc' = "sending"
               /\ UNCHANGED settled
    /\ UNCHANGED <<fn, input, value, json, target, restored, hexLog, heap>>

\* submit up to the await: the params are sent as given
Submit ==
    /\ pc = "idle"
    /\ fn = "submit"
    /\ requests' = Append(requests,
           Request(input.endpoint, Body("trp.submit", input.params, input.id)))
    /\ pc' = "sending"
    /\ UNCHANGED <<fn, input, value, json, target, restored, hexLog, heap, settled>>

\* a catch clause that lets an error it does not know through as it is
CaughtKnownOnly(error) ==
    IF error.error = "TypeError" /\ error.mentionsFetch
    THEN Rejected("NetworkError", <<"Network error: ", error.message>>, [cause |-> error])
    ELSE IF error.error = "SyntaxError"
    THEN Rejected("TrpError", <<"Failed to parse response: ", error.message>>,
                  [cause |-> error])
    ELSE Rejected(error.error, <<error.message>>, <<>>)

\* the classes an error is an instance of TrpError by: TrpError and what
\* extends it
TrpErrorClasses == {"TrpError", "NetworkError", "StatusCodeError", "JsonRpcError"}

\* a catch clause without the case of a parse error
CaughtNoParseCase(error) ==
    IF error.error = "TypeError" /\ error.mentionsFetch
    THEN Rejected("NetworkError", <<"Network error: ", error.message>>, [cause |-> error])
    ELSE Rejected("TrpError", <<"Unknown error: ", error.error, error.message>>,
                  [cause |-> error])

\* what the catch clause of makeJsonRpcRequest throws for an error that is
\* no TrpError
Caught(error) ==
    IF error.error = "TypeError" /\ error.mentionsFetch
    THEN Rejected("NetworkError", <<"Network error: ", error.message>>, [cause |-> error])
    ELSE IF error.error = "SyntaxError"
    THEN Rejected("TrpError", <<"Failed to parse response: ", error.message>>,
                  [cause |-> error])
    ELSE Rejected("TrpError", <<"Unknown error: ", error.error, error.message>>,
                  [cause |-> error])

\* result.error, result.result: undefined when the member is missing
Member(object, name) ==
    IF IsPlainObject(object) /\ name \in DOMAIN object.props
    THEN object.props[name] ELSE JsUndefined

\* if (x): false for undefined, null, false, 0 and "", true for objects
Truthy(x) ==
    CASE x.typeof = "undefined" -> FALSE
      [] x.typeof = "boolean" -> x.b
      [] x.typeof = "number" -> x.v.mag # <<>> \/ ~x.int
      [] x.typeof = "string" -> x.s # <<>>
      [] OTHER -> ~x.isNull

\* a client that reads the body before it looks at the status
SettleBodyFirst(method, net) ==
    IF net.kind = "reject" THEN Caught(net.error)
    ELSE IF ~net.parses
    THEN Caught([error |-> "SyntaxError", message |-> "Unexpected token",
                 mentionsFetch |-> FALSE])
    ELSE IF net.body = JsNull
    THEN Caught([error |-> "TypeError", message |-> "Cannot read properties of null",
                 mentionsFetch |-> FALSE])
    ELSE IF Truthy(Member(net.body, "error"))
    THEN Rejected("JsonRpcError",
                  <<"JSON-RPC error: ", Member(Member(net.body, "error"), "message")>>,
                  [data |-> Member(Member(net.body, "error"), "data"),
                   cause |-> Member(Member(net.body, "error"), "data")])
    ELSE IF net.status < 200 \/ net.status > 299
    THEN Rejected("StatusCodeError", <<"HTTP error ", net.status, ": ", net.statusText>>,
                  [statusCode |-> net.status])
    ELSE IF Member(net.body, "result") = JsUndefined /\ method # "trp.submit"
    THEN Rejected("TrpError", <<"No result in response">>, [cause |-> JsUndefined])
    ELSE Ok(Member(net.body, "result"))

\* a client that returns a result it finds before it looks for an error
SettleResultFirst(method, net) ==
    IF net.kind = "reject" THEN Caught(net.error)
    ELSE IF net.status < 200 \/ net.status > 299
    THEN Rejected("StatusCodeError", <<"HTTP error ", net.status, ": ", net.statusText>>,
                  [statusCode |-> net.status])
    ELSE IF ~net.parses
    THEN Caught([error |-> "SyntaxError", message |-> "Unexpected token",
                 mentionsFetch |-> FALSE])
    ELSE IF net.body = JsNull
    THEN Caught([error |-> "TypeError", message |-> "Cannot read properties of null",
                 mentionsFetch |-> FALSE])
    ELSE IF Member(net.body, "result") # JsUndefined
    THEN Ok(Member(net.body, "result"))
    ELSE IF Truthy(Member(net.body, "error"))
    THEN Rejected("JsonRpcError",
                  <<"JSON-RPC error: ", Member(Member(net.body, "error"), "message")>>,
                  [data |-> Member(Member(net.body, "error"), "data"),
                   cause |-> Member(Member(net.body, "error"), "data")])
    ELSE IF method # "trp.submit"
    THEN Rejected("TrpError", <<"No result in response">>, [cause |-> JsUndefined])
    ELSE Ok(JsUndefined)

\* a client that asks every method for a result
SettleResultRequired(method, net) ==
    IF net.kind = "reject" THEN Caught(net.error)
    ELSE IF net.status < 200 \/ net.status > 299
    THEN Rejected("StatusCodeError", <<"HTTP error ", net.status, ": ", net.statusText>>,
                  [statusCode |-> net.status])
    ELSE IF ~net.parses
    THEN Caught([error |-> "SyntaxError", message |-> "Unexpected token",
                 mentionsFetch |-> FALSE])
    ELSE IF net.body = JsNull
    THEN Caught([error |-> "TypeError", message |-> "Cannot read properties of null",
                 mentionsFetch |-> FALSE])
    ELSE IF Truthy(Member(net.body, "error"))
    THEN Rejected("JsonRpcError",
                  <<"JSON-RPC error: ", Member(Member(net.body, "error"), "message")>>,
                  [data |-> Member(Member(net.body, "error"), "data"),
                   cause |-> Member(Member(net.body, "error"), "data")])
    ELSE IF Member(net.body, "result") = JsUndefined
    THEN Rejected("TrpError", <<"No result in response">>, [cause |-> JsUndefined])
    ELSE Ok(Member(net.body, "result"))

\* makeJsonRpcRequest from the settlement of fetch on
Settle(method, net) ==
    IF net.kind = "reject" THEN Caught(net.error)
    ELSE IF net.status < 200 \/ net.status > 299
    THEN Rejected("StatusCodeError", <<"HTTP error ", net.status, ": ", net.statusText>>,
                  [statusCode |-> net.status])
    ELSE IF ~net.parses
    THEN Caught([error |-> "SyntaxError", message |-> "Unexpected token",
                 mentionsFetch |-> FALSE])
    ELSE IF net.body = JsNull
    THEN Caught([error |-> "TypeError", message |-> "Cannot read properties of null",
                 mentionsFetch |-> FALSE])
    ELSE IF Truthy(Member(net.body, "error"))
    THEN Rejected("JsonRpcError",
                  <<"JSON-RPC error: ", Member(Member(net.body, "error"), "message")>>,
                  [data |-> Member(Member(net.body, "error"), "data"),
                   cause |-> Member(Member(net.body, "error"), "data")])
    ELSE IF Member(net.body, "result") = JsUndefined /\ method # "trp.submit"
    THEN Rejected("TrpError", <<"No result in response">>, [cause |-> JsUndefined])
    ELSE Ok(Member(net.body, "result"))

\* a client that sends the request again after a failure (no such loop
\* exists in makeJsonRpcRequest)
RespondRetrying ==
    /\ pc = "sending"
    /\ LET outcome == Settle(requests[Len(requests)].body.method, input.net)
       IN IF ~outcome.ok /\ Len(requests) < 2
          THEN /\ requests' = Append(requests, requests[1])
               /\ pc' = "sending"
               /\ UNCHANGED settled
          ELSE /\ settled' = Append(settled,
                      IF fn = "submit" /\ outcome.ok THEN Ok(JsUndefined) ELSE outcome)
               /\ pc' = "done"
               /\ UNCHANGED requests
    /\ UNCHANGED <<fn, input, value, json, target, restored, hexLog, heap>>

\* the call settles: resolve with the result, submit with nothing
Respond ==
    /\ pc = "sending"
    /\ LET outcome == Settle(requests[Len(requests)].body.method, input.net)
       IN settled' = Append(settled,
              IF fn = "submit" /\ outcome.ok THEN Ok(JsUndefined) ELSE outcome)
    /\ pc' = "done"
    /\ UNCHANGED <<fn, input, value, json, target, restored, hexLog, heap, requests>>

NextClient == Resolve \/ Submit \/ Respond

SpecClient == InitClient /\ [][NextClient]_vars

-----------------------------------------------------------------------------
(* Several calls in flight.  The calls of a program run up to their await   *)
(* of fetch and from its settlement on in any interleaving; pc, settled are *)
(* per call, value holds this.options of every client, heap the ids the     *)
(* runtime has handed out.                                                  *)

MaxCalls == 2

\* the ids crypto.randomUUID can return, taken as: never one it returned before
Uuids == 1..(MaxCalls + 1)

randomUUID(drawn) == Uuids \ drawn

\* prepareHeaders: Content-Type, overridden and extended by options.headers
prepareHeaders(options) ==
    [k \in {"Content-Type"} \cup DOMAIN options.headers |->
        IF k \in DOMAIN options.headers THEN options.headers[k]
        ELSE "application/json"]

\* the params resolve builds, or the error its marshalling throws
ResolveParams(options, protoTx) ==
    LET args == convertArgsToJson(protoTx.args, TRUE)
        envArgs == IF options.envArgs.given
                   THEN convertArgsToJson(options.envArgs.entries, FALSE)
                   ELSE Ok(<<>>)
    IN IF ~args.ok THEN args
       ELSE IF ~envArgs.ok THEN envArgs
       ELSE IF options.envArgs.given
       THEN Ok([tir |-> protoTx.tir, args |-> Stringified(args.v),
                env |-> Stringified(envArgs.v)])
       ELSE Ok([tir |-> protoTx.tir, args |-> Stringified(args.v)])

\* the two clients of the program
Clients ==
    <<[endpoint |-> "https://trp.example/rpc",
       headers |-> [Authorization |-> "Bearer k"],
       envArgs |-> EnvArgsOf("camel")],
      [endpoint |-> "https://other.example/rpc",
       headers |-> <<>>,
       envArgs |-> EnvArgsOf("none")]>>

CallShapes == {"resolveOk", "resolveStatus", "resolveTagged", "resolveError",
               "submitOk", "submitReject"}

\* a call: the client it is made on, the method, its argument, the answer of
\* the network to its request
CallOf(shape) ==
    [client |-> IF shape \in {"resolveError", "submitReject"} THEN 2 ELSE 1,
     method |-> IF shape \in {"submitOk", "submitReject"} THEN "trp.submit"
                ELSE "trp.resolve",
     protoTx |-> [tir |-> [version |-> "v1alpha9", bytecode |-> shape, encoding |-> "hex"],
                  args |-> IF shape = "resolveTagged"
                           THEN EntriesOf(<<<< <<"x">>, "tagged">>>>)
                           ELSE EntriesOf(<<<< <<"a", "B">>, "int">>>>)],
     params |-> [tx |-> [content |-> "84a4", encoding |-> "hex"], witnesses |-> <<>>],
     net |-> CASE shape = "resolveStatus" -> Responds(500, "", "result")
               [] shape = "resolveError" -> Responds(200, "OK", "errorAndResult")
               [] shape = "submitOk" -> Responds(200, "OK", "empty")
               [] shape = "submitReject" ->
                     Rejects([error |-> "TypeError", message |-> "fetch failed",
                              mentionsFetch |-> TRUE])
               [] OTHER -> Responds(200, "OK", "result")]

InitCalls ==
    \E shapes \in SeqsUpTo(CallShapes, MaxCalls) :
        /\ shapes # <<>>
        /\ fn = "calls"
        /\ input = [i \in DOMAIN shapes |-> CallOf(shapes[i])]
        /\ pc = [i \in DOMAIN shapes |-> "idle"]
        /\ settled = [i \in DOMAIN shapes |-> None]
        /\ value = Clients
        /\ heap = {}
        /\ requests = <<>>
        /\ json = None
        /\ target = "Undefined"
        /\ restored = None
        /\ hexLog = <<>>

\* makeJsonRpcRequest of call i up to the await: a new id, one request
Send(i, params, id) ==
    /\ requests' = Append(requests,
           [call |-> i,
            endpoint |-> value[input[i].client].endpoint,
            method |-> "POST",
            headers |-> prepareHeaders(value[input[i].client]),
            body |-> Body(input[i].method, params, id)])
    /\ heap' = heap \cup {id}
    /\ pc' = [pc EXCEPT ![i] = "sending"]
    /\ UNCHANGED settled

\* a client whose id is made once, at its construction
IssueClientId(i) ==
    /\ pc[i] = "idle"
    /\ \E built \in {IF input[i].method = "trp.resolve"
                     THEN ResolveParams(value[input[i].client], input[i].protoTx)
                     ELSE Ok(input[i].params)} :
          IF built.ok
          THEN Send(i, built.v, input[i].client)
          ELSE /\ settled' = [settled EXCEPT ![i] = built]
               /\ pc' = [pc EXCEPT ![i] = "done"]
               /\ UNCHANGED <<requests, heap>>
    /\ UNCHANGED <<fn, input, value, json, target, restored, hexLog>>

\* call i, resolve or submit, up to the await of fetch
Issue(i) ==
    /\ pc[i] = "idle"
    /\ \E built \in {IF input[i].method = "trp.resolve"
                     THEN ResolveParams(value[input[i].client], input[i].protoTx)
                     ELSE Ok(input[i].params)} :
          IF built.ok
          THEN \E id \in randomUUID(heap) : Send(i, built.v, id)
          ELSE /\ settled' = [settled EXCEPT ![i] = built]
               /\ pc' = [pc EXCEPT ![i] = "done"]
               /\ UNCHANGED <<requests, heap>>
    /\ UNCHANGED <<fn, input, value, json, target, restored, hexLog>>

\* a client that keeps the latest response in a field all its calls read
SettledLatest(i) ==
    /\ pc[i] = "sending"
    /\ \E outcome \in {Settle(input[i].method,
                              input[requests[Len(requests)].call].net)} :
          settled' = [settled EXCEPT ![i] =
              IF input[i].method = "trp.submit" /\ outcome.ok
              THEN Ok(JsUndefined) ELSE outcome]
    /\ pc' = [pc EXCEPT ![i] = "done"]
    /\ UNCHANGED <<fn, input, value, json, target, restored, hexLog, heap, requests>>

\* the answer to the request of call i arrives and the call settles
Settled(i) ==
    /\ pc[i] = "sending"
    /\ \E outcome \in {Settle(input[i].method, input[i].net)} :
          settled' = [settled EXCEPT ![i] =
              IF input[i].method = "trp.submit" /\ outcome.ok
              THEN Ok(JsUndefined) ELSE outcome]
    /\ pc' = [pc EXCEPT ![i] = "done"]
    /\ UNCHANGED <<fn, input, value, json, target, restored, hexLog, heap, requests>>

NextCalls == \E i \in DOMAIN pc : Issue(i) \/ Settled(i)

SpecCalls == InitCalls /\ [][NextCalls]_vars

-----------------------------------------------------------------------------
(* Byte buffers by reference.  A Uint8Array is an object: heap[a] holds the *)
(* bytes of the buffer at address a, and a value refers to it as            *)
(* [ref |-> a].  The caller's buffer is at address 1.                       *)

\* new Uint8Array(bytes): the heap with the buffer added
Allocated(h, bytes) == Append(h, bytes)

\* the buffer a decoded Bytes value holds, by address: valueToBytes hands a
\* Uint8Array back as it is, and hexToBytes makes a new one
BufferOf(h, v, outcome) ==
    IF IsUint8Array(v) THEN v.u8.ref ELSE Len(h) + 1

\* hex texts a Bytes value is decoded from, one of them malformed
BufferTexts == {<<>>, <<"a", "b">>, <<"0", "x", "0", "1">>, <<"g">>}

InitBuffers ==
    /\ pc = "idle"
    /\ fn = "fromJson"
    /\ target = "Bytes"
    /\ \E bytes \in ByteSeqs :
          /\ heap = <<bytes>>
          /\ \/ input = JsUint8Array([ref |-> 1])
             \/ \E text \in BufferTexts : input = JsString(text)
    /\ value = None
    /\ json = None
    /\ restored = None
    /\ hexLog = <<>>
    /\ requests = <<>>
    /\ settled = <<>>

\* fromJson(input, Type.Bytes); json keeps the caller's bytes as they were
\* before the call, restored the bytes of the result as returned
FromJsonBytes ==
    /\ pc = "idle"
    /\ fn = "fromJson"
    /\ \E outcome \in {fromJson(input, target)} :
          \E a \in {BufferOf(heap, input, outcome)} :
             /\ heap' = IF outcome.ok /\ ~IsUint8Array(input)
                        THEN Allocated(heap, outcome.v.value) ELSE heap
             /\ value' = IF outcome.ok
                         THEN Ok([type |-> outcome.v.type, value |-> [ref |-> a]])
                         ELSE outcome
             /\ restored' = IF outcome.ok THEN heap'[a] ELSE None
    /\ json' = heap[1]
    /\ pc' = "decoded"
    /\ UNCHANGED <<fn, input, target, hexLog, requests, settled>>

\* the caller goes on using its buffer: buffer[i] = b
CallerWrites ==
    /\ pc = "decoded"
    /\ \E i \in DOMAIN heap[1], b \in ByteAlphabet :
          /\ b # heap[1][i]
          /\ heap' = [heap EXCEPT ![1][i] = b]
    /\ pc' = "written"
    /\ UNCHANGED <<fn, input, value, json, target, restored, hexLog, requests, settled>>

NextBuffers == FromJsonBytes \/ CallerWrites

SpecBuffers == InitBuffers /\ [][NextBuffers]_vars

-----------------------------------------------------------------------------
(* The installer (installCommand) over a file system.  heap maps the files  *)
(* of the project to their state, a file being missing or holding a text (a *)
(* sequence of lines); value holds the BackupEntry list, input the file     *)
(* system before the installation and the answers to the prompts.           *)

Missing == [exists |-> FALSE, text |-> <<>>]

File(text) == [exists |-> TRUE, text |-> text]

ConfigFiles == <<"next.config.js", "next.config.mjs", "next.config.ts">>

ProjectFiles ==
    {"package.json", "package-lock.json", "next.config.js", "next.config.mjs",
     "next.config.ts", "devnet/dolos.toml"}

\* path.join(backupDir, basename + "." + Date.now() + ".backup")
BackupPath(file) ==
    CASE file = "package.json" -> ".tx3-backup/package.json.backup"
      [] file = "next.config.js" -> ".tx3-backup/next.config.js.backup"
      [] file = "next.config.mjs" -> ".tx3-backup/next.config.mjs.backup"
      [] file = "next.config.ts" -> ".tx3-backup/next.config.ts.backup"

AllFiles == ProjectFiles \cup {BackupPath(f) : f \in {"package.json"} \cup
                                  {ConfigFiles[i] : i \in DOMAIN ConfigFiles}}

Lines(text) == {text[i] : i \in DOMAIN text}

\* FileUtils.backupFile: the entry, and the file system with the copy in it
backupFile(fs, file) ==
    LET originalContent == IF fs[file].exists THEN fs[file].text ELSE <<>>
    IN [entry |-> [originalPath |-> file, backupPath |-> BackupPath(file),
                   content |-> originalContent],
        fs |-> IF originalContent # <<>>
               THEN [fs EXCEPT ![BackupPath(file)] = File(originalContent)]
               ELSE fs]

\* FileUtils.restoreFromBackup
restoreFromBackup(fs, backup) ==
    IF backup.content # <<>>
    THEN [fs EXCEPT ![backup.originalPath] = File(backup.content)]
    ELSE IF fs[backup.originalPath].exists
    THEN [fs EXCEPT ![backup.originalPath] = Missing]
    ELSE fs

RECURSIVE BackupAll(_, _, _)
BackupAll(fs, files, backups) ==
    IF files = <<>> THEN [fs |-> fs, backups |-> backups]
    ELSE LET done == backupFile(fs, Head(files))
         IN BackupAll(done.fs, Tail(files), Append(backups, done.entry))

RECURSIVE RestoreAll(_, _)
RestoreAll(fs, backups) ==
    IF backups = <<>> THEN fs
    ELSE RestoreAll(restoreFromBackup(fs, Head(backups)), Tail(backups))

\* the files installCommand backs up: those of the four that exist
filesToBackup(fs) ==
    SelectSeq(<<"package.json">> \o ConfigFiles, LAMBDA f : fs[f].exists)

requiredPackages == <<"tx3-sdk", "next-tx3">>

\* PackageUtils.getMissingPackages
getMissingPackages(fs) ==
    SelectSeq(requiredPackages, LAMBDA p : p \notin Lines(fs["package.json"].text))

ImportLine == "import { withTX3 } from 'next-tx3';"

ExportLine == "export default nextConfig;"

WrappedLine == "export default withTX3({ ...nextConfig, tx3: {} });"

includesWithTX3(text) == ImportLine \in Lines(text) \/ WrappedLine \in Lines(text)

\* updateNextConfig: the file system after it, or the error it throws
updateNextConfig(fs) ==
    LET existing == SelectSeq(ConfigFiles, LAMBDA f : fs[f].exists)
    IN IF existing = <<>>
       THEN Ok([fs EXCEPT !["next.config.js"] = File(<<ImportLine, WrappedLine>>)])
       ELSE LET configFile == Head(existing)
                existingContent == fs[configFile].text
                updatedContent ==
                    IF ImportLine \in Lines(existingContent) THEN existingContent
                    ELSE <<ImportLine>> \o existingContent
            IN IF includesWithTX3(existingContent) THEN Ok(fs)
               ELSE IF ExportLine \in Lines(updatedContent)
               THEN Ok([fs EXCEPT ![configFile] = File(
                        [i \in DOMAIN updatedContent |->
                            IF updatedContent[i] = ExportLine
                               /\ \A j \in 1..(i - 1) : updatedContent[j] # ExportLine
                            THEN WrappedLine ELSE updatedContent[i]])])
               ELSE Throw("Error", "Could not find export default in Next.js config")

PackageTexts ==
    {<<"name">>, <<"name", "tx3-sdk">>, <<"name", "tx3-sdk", "next-tx3">>}

ConfigTexts ==
    {<<>>, <<"module.exports = nextConfig;">>, <<"const nextConfig = {};", ExportLine>>,
     <<ImportLine, WrappedLine>>}

InitInstall ==
    /\ pc = "backup"
    /\ fn = "installCommand"
    /\ \E package \in PackageTexts, lock \in {Missing, File(<<"lock">>)},
          js \in {Missing} \cup {File(t) : t \in ConfigTexts},
          mjs \in {Missing, File(<<ExportLine>>)},
          ts \in {Missing, File(<<"module.exports = nextConfig;">>)},
          includeDevnet \in BOOLEAN :
          /\ heap = [f \in AllFiles |->
                       CASE f = "package.json" -> File(package)
                         [] f = "package-lock.json" -> lock
                         [] f = "next.config.js" -> js
                         [] f = "next.config.mjs" -> mjs
                         [] f = "next.config.ts" -> ts
                         [] OTHER -> Missing]
          /\ input = [fs |-> heap, includeDevnet |-> includeDevnet]
    /\ value = <<>>
    /\ json = None
    /\ target = "Undefined"
    /\ restored = None
    /\ hexLog = <<>>
    /\ requests = <<>>
    /\ settled = <<>>

\* "Creating backup": every file of the four that exists is backed up
CreateBackup ==
    /\ pc = "backup"
    /\ \E done \in {BackupAll(heap, filesToBackup(heap), <<>>)} :
          /\ heap' = done.fs
          /\ value' = done.backups
    /\ pc' = "packages"
    /\ UNCHANGED <<fn, input, json, target, restored, hexLog, requests, settled>>

\* "Installing TX3 packages": the package manager runs when a package is
\* missing; it ends well, or fails having written nothing or the lock file
InstallPackages ==
    /\ pc = "packages"
    /\ \E missing \in {getMissingPackages(heap)} :
          IF missing = <<>>
          THEN pc' = "config" /\ UNCHANGED heap
          ELSE \/ /\ heap' = [heap EXCEPT
                        !["package.json"] = File(heap["package.json"].text \o missing),
                        !["package-lock.json"] = File(<<"lock">> \o missing)]
                  /\ pc' = "config"
               \/ /\ pc' = "failed"
                  /\ UNCHANGED heap
               \/ /\ heap' = [heap EXCEPT
                        !["package-lock.json"] = File(<<"lock">> \o missing)]
                  /\ pc' = "failed"
    /\ UNCHANGED <<fn, input, value, json, target, restored, hexLog, requests, settled>>

\* "Updating Next.js configuration"
UpdateNextConfig ==
    /\ pc = "config"
    /\ \E outcome \in {updateNextConfig(heap)} :
          IF outcome.ok
          THEN heap' = outcome.v /\ pc' = "devnet"
          ELSE pc' = "failed" /\ UNCHANGED heap
    /\ UNCHANGED <<fn, input, value, json, target, restored, hexLog, requests, settled>>

\* "Setting up devnet": asked for or not, done or failed, the installation
\* goes on
SetupDevnet ==
    /\ pc = "devnet"
    /\ \/ ~input.includeDevnet /\ UNCHANGED heap
       \/ /\ input.includeDevnet
          /\ \/ heap' = [heap EXCEPT
                    !["devnet/dolos.toml"] = File(<<"dolos">>),
                    !["package.json"] = File(heap["package.json"].text \o <<"devnet:start">>)]
             \/ heap' = [heap EXCEPT !["devnet/dolos.toml"] = File(<<"dolos">>)]
             \/ UNCHANGED heap
    /\ pc' = "completed"
    /\ UNCHANGED <<fn, input, value, json, target, restored, hexLog, requests, settled>>

\* the catch clause: every backup is restored
Rollback ==
    /\ pc = "failed"
    /\ heap' = RestoreAll(heap, value)
    /\ pc' = "rolledBack"
    /\ UNCHANGED <<fn, input, value, json, target, restored, hexLog, requests, settled>>

NextInstall ==
    CreateBackup \/ InstallPackages \/ UpdateNextConfig \/ SetupDevnet \/ Rollback

SpecInstall == InitInstall /\ [][NextInstall]_vars

-----------------------------------------------------------------------------
(* Reference notions the claims are stated in *)

LowerHexChars ==
    {"0", "1", "2", "3", "4", "5", "6", "7", "8", "9", "a", "b", "c", "d", "e", "f"}

AnyHexChars == LowerHexChars \cup {"A", "B", "C", "D", "E", "F"}

DecimalChars == {"0", "1", "2", "3", "4", "5", "6", "7", "8", "9"}

IsOver(text, chars) == \A i \in 1..Len(text) : text[i] \in chars

\* the bytes an even-length hex text denotes, two characters a byte
RefBytes(text) ==
    [i \in 1..(Len(text) \div 2) |->
        16 * DigitValue(text[2 * i - 1], 16) + DigitValue(text[2 * i], 16)]

\* the text left of a value handed to hexToBytes once one leading 0x is dropped
Remaining(text) ==
    IF Len(text) >= 2 /\ text[1] = "0" /\ text[2] = "x"
    THEN SubSeq(text, 3, Len(text)) ELSE text

InI128(x) == BigLe(MIN_I128, x) /\ BigLe(x, MAX_I128)

\* 2^53 - 1 as a magnitude
SafeMagnitude == <<31, 255, 255, 255, 255, 255, 255>>

\* x mod 2^128 as a magnitude, for x in the i128 range
Mod128(x) == IF x.neg THEN MagSub(Pow256(I128Bytes).mag, x.mag) ELSE x.mag

OwnType(v) == IF v.type = "String" THEN "Undefined" ELSE v.type

IsIntegerInput(x) == x.typeof = "bigint" \/ (x.typeof = "number" /\ x.int)

Threw(outcome, msg) ==
    ~outcome.ok /\ outcome.error = "ArgValueError" /\ outcome.message = msg

CountOf(text, c) == Cardinality({i \in 1..Len(text) : text[i] = c})

RECURSIVE DecimalValue(_)
DecimalValue(text) ==
    IF text = <<>> THEN 0
    ELSE 10 * DecimalValue(SubSeq(text, 1, Len(text) - 1))
             + DigitValue(text[Len(text)], 10)

-----------------------------------------------------------------------------
(* Claims *)

\* C1: every primitive ArgValue a factory builds (Int, Bool, String, Bytes,
\* Address, UtxoRef) comes back from fromJson(toJson(v), T), T its own type
\* (Undefined for String), as a value of the same variant and content.
C1_RoundTrip ==
    (pc = "decoded" /\ fn # "fromJson" /\ target = OwnType(value.v))
        => (restored.ok /\ restored.v = value.v)

\* C2: building an Int from an integer v, then encoding and decoding it,
\* succeeds exactly when -2^127 <= v <= 2^127 - 1; outside that range the
\* construction itself fails (createIntArg, fromJson with Type.Int).
C2_IntRange ==
    /\ (fn = "createIntArg" /\ IsIntegerInput(input) /\ pc = "built")
           => (value.ok <=> InI128(input.v))
    /\ (fn = "createIntArg" /\ IsIntegerInput(input) /\ pc = "encoded")
           => (json.ok /\ InI128(input.v))
    /\ (fn = "createIntArg" /\ IsIntegerInput(input) /\ pc = "decoded" /\ target = "Int")
           => (restored.ok /\ InI128(input.v))
    /\ (fn = "fromJson" /\ IsIntegerInput(input) /\ pc = "decoded" /\ target = "Int")
           => (restored.ok <=> InI128(input.v))

\* C3: for an Int v in the i128 range toJson returns a host number exactly
\* when |v| <= 2^53 - 1, and otherwise a string matching ^0x[0-9a-f]+$.
C3_SafeIntegerBoundary ==
    (pc = "encoded" /\ fn = "createIntArg" /\ InI128(value.v.value))
        => /\ json.ok
           /\ json.v.typeof = "number" <=> MagLe(value.v.value.mag, SafeMagnitude)
           /\ json.v.typeof = "number" => json.v = JsNumber(value.v.value)
           /\ json.v.typeof # "number" =>
                  /\ json.v.typeof = "string"
                  /\ Len(json.v.s) > 2
                  /\ SubSeq(json.v.s, 1, 2) = <<"0", "x">>
                  /\ IsOver(slice(json.v.s, 2), LowerHexChars)

C3_Witness ==
    /\ pc = "encoded"
    /\ fn = "createIntArg"
    /\ value.v.value = Big(TRUE, <<32, 0, 0, 0, 0, 0, 0>>)
    /\ json.v.typeof = "string"

\* C4: the hex string of an Int v of the i128 range outside the safe-integer
\* range is 16 bytes whose big-endian unsigned value is v mod 2^128; and a
\* 16-byte hex string h with unsigned value u decodes to u when the top bit
\* of its first byte is clear and to u - 2^128 when it is set.
C4_TwosComplement ==
    /\ (pc = "encoded" /\ fn = "createIntArg" /\ InI128(value.v.value)
           /\ ~MagLe(value.v.value.mag, SafeMagnitude))
          => /\ json.ok
             /\ json.v.typeof = "string"
             /\ Len(json.v.s) = 2 + 2 * I128Bytes
             /\ Norm(RefBytes(slice(json.v.s, 2))) = Mod128(value.v.value)
    /\ (pc = "decoded" /\ fn = "fromJson" /\ target = "Int" /\ input.typeof = "string"
           /\ Len(Remaining(input.s)) = 2 * I128Bytes
           /\ IsOver(Remaining(input.s), AnyHexChars))
          => LET h == Remaining(input.s)
                 u == Norm(RefBytes(h))
             IN /\ restored.ok
                /\ restored.v.type = "Int"
                /\ DigitValue(h[1], 16) < 8 => restored.v.value = Big(FALSE, u)
                /\ DigitValue(h[1], 16) >= 8 =>
                       /\ restored.v.value.neg
                       /\ MagAdd(restored.v.value.mag, u) = Pow256(I128Bytes).mag

C4_Witness ==
    /\ pc = "encoded"
    /\ fn = "createIntArg"
    /\ value.v.value = BigNeg(Pow256(8))
    /\ json.v = JsString(<<"0", "x">> \o Repeat("f", 16) \o Repeat("0", 16))

\* C5: bytesToHex(hexToBytes(s)) = s for every even-length lowercase hex
\* string s, and hexToBytes(bytesToHex(b)) = b for every byte sequence b.
C5_HexRoundTrip ==
    /\ (Len(hexLog) >= 1 /\ hexLog[1].fn = "hexToBytes"
           /\ Len(hexLog[1].arg) % 2 = 0 /\ IsOver(hexLog[1].arg, LowerHexChars))
          => /\ hexLog[1].ret.ok
             /\ Len(hexLog) = 2 => hexLog[2].ret = Ok(hexLog[1].arg)
    /\ (Len(hexLog) = 2 /\ hexLog[1].fn = "bytesToHex")
          => hexLog[2].ret = Ok(hexLog[1].arg)

C5_Witness ==
    /\ Len(hexLog) = 2
    /\ hexLog[1].fn = "hexToBytes"
    /\ hexLog[1].arg = <<"0", "9", "a", "0">>
    /\ hexLog[1].ret = Ok(<<9, 160>>)
    /\ hexLog[2].ret = Ok(<<"0", "9", "a", "0">>)

HexValidation(s, ret) ==
    /\ ~ret.ok <=> (Len(Remaining(s)) % 2 # 0 \/ ~IsOver(Remaining(s), AnyHexChars))
    /\ ~ret.ok => Threw(ret, "Invalid hex string")
    /\ ret.ok => ret.v = RefBytes(Remaining(s))

\* C6 as stated: hexToBytes("0x" + h) = hexToBytes(h) for every h, and
\* hexToBytes throws "Invalid hex string" exactly when the text left after
\* one leading 0x has odd length or a character outside [0-9a-fA-F].
C6_Original ==
    (Len(hexLog) >= 1 /\ hexLog[1].fn = "hexToBytes")
        => /\ startsWith(hexLog[1].arg, <<"0", "x">>)
                  => hexLog[1].ret = hexToBytes(slice(hexLog[1].arg, 2))
           /\ HexValidation(hexLog[1].arg, hexLog[1].ret)

\* C6 as amended: hexToBytes("0x" + h) = hexToBytes(h) for every h that does
\* not itself begin with 0x, and hexToBytes throws "Invalid hex string"
\* exactly when the text left after one leading 0x has odd length or a
\* character outside [0-9a-fA-F], returning the bytes otherwise.
C6_HexValidation ==
    (Len(hexLog) >= 1 /\ hexLog[1].fn = "hexToBytes")
        => /\ (startsWith(hexLog[1].arg, <<"0", "x">>)
                  /\ ~startsWith(slice(hexLog[1].arg, 2), <<"0", "x">>))
                  => hexLog[1].ret = hexToBytes(slice(hexLog[1].arg, 2))
           /\ HexValidation(hexLog[1].arg, hexLog[1].ret)

C6_Witness ==
    /\ Len(hexLog) >= 1
    /\ hexLog[1].fn = "hexToBytes"
    /\ hexLog[1].arg = <<"0", "x", "a", "F">>
    /\ hexLog[1].ret = Ok(<<175>>)

\* C7: fromJson(x, Type.Int) accepts a host number only if it is an integer
\* (else "Number is not an integer"), a bigint only if it is in the i128
\* range, a hex string only if it decodes to exactly 16 bytes (else "Invalid
\* bytes for number"); null is rejected with "Value is null" and every other
\* type of input with "Value is not a number".
C7_IntDecode ==
    (pc = "decoded" /\ fn = "fromJson" /\ target = "Int")
        => /\ input.typeof = "number" =>
                  /\ restored.ok <=> (input.int /\ InI128(input.v))
                  /\ ~input.int => Threw(restored, "Number is not an integer")
                  /\ restored.ok => restored.v = [type |-> "Int", value |-> input.v]
           /\ input.typeof = "bigint" =>
                  /\ restored.ok <=> InI128(input.v)
                  /\ restored.ok => restored.v = [type |-> "Int", value |-> input.v]
           /\ (input.typeof = "string" /\ IsOver(Remaining(input.s), AnyHexChars)
                   /\ Len(Remaining(input.s)) % 2 = 0) =>
                  /\ restored.ok <=> Len(Remaining(input.s)) = 2 * I128Bytes
                  /\ ~restored.ok => Threw(restored, "Invalid bytes for number")
           /\ (input.typeof = "string" /\ ~restored.ok) => restored.error = "ArgValueError"
           /\ input = JsNull => Threw(restored, "Value is null")
           /\ (input.typeof \notin {"number", "bigint", "string"} /\ input # JsNull)
                  => Threw(restored, "Value is not a number")

C7_Witness ==
    /\ pc = "decoded"
    /\ fn = "fromJson"
    /\ target = "Int"
    /\ input = JsNull
    /\ Threw(restored, "Value is null")

\* C8: fromJson(x, Type.Bool) returns x for a boolean x, false for number 0
\* and true for number 1, true for "true" and false for "false"; any other
\* number throws "Invalid number for boolean", any other string "Invalid
\* string for boolean", any other type "Value is not a bool".
C8_BoolDecode ==
    (pc = "decoded" /\ fn = "fromJson" /\ target = "Bool")
        => LET Is(b) == restored = Ok([type |-> "Bool", value |-> b])
               zero == JsNumber(Big(FALSE, <<>>))
               one == JsNumber(Big(FALSE, <<1>>))
               yes == <<"t", "r", "u", "e">>
               no == <<"f", "a", "l", "s", "e">>
           IN /\ input.typeof = "boolean" => Is(input.b)
              /\ input = zero => Is(FALSE)
              /\ input = one => Is(TRUE)
              /\ (input.typeof = "number" /\ input \notin {zero, one})
                     => Threw(restored, "Invalid number for boolean")
              /\ input = JsString(yes) => Is(TRUE)
              /\ input = JsString(no) => Is(FALSE)
              /\ (input.typeof = "string" /\ input.s \notin {yes, no})
                     => Threw(restored, "Invalid string for boolean")
              /\ input.typeof \notin {"boolean", "number", "string"}
                     => Threw(restored, "Value is not a bool")

C8_Witness ==
    /\ pc = "decoded"
    /\ fn = "fromJson"
    /\ target = "Bool"
    /\ input = JsNumber(Big(FALSE, <<31>>))
    /\ Threw(restored, "Invalid number for boolean")

\* the text on each side of the only # of a text that has exactly one
LeftOfHash(text) == SubSeq(text, 1, (CHOOSE i \in 1..Len(text) : text[i] = "#") - 1)

RightOfHash(text) ==
    SubSeq(text, (CHOOSE i \in 1..Len(text) : text[i] = "#") + 1, Len(text))

IsBase10Index(text) == text # <<>> /\ IsOver(text, DecimalChars)

\* C9: fromJson(s, Type.UtxoRef) succeeds only for strings with exactly one #
\* whose right part is a base-10 non-negative integer, and then returns the
\* bytes of the left hex part as txid and that integer as index; a wrong
\* number of # segments, or an index that is not a number, throws with a
\* message containing "Invalid utxo ref".
C9_UtxoRefDecode ==
    (pc = "decoded" /\ fn = "fromJson" /\ target = "UtxoRef" /\ input.typeof = "string")
        => LET s == input.s
               one == CountOf(s, "#") = 1
           IN /\ restored.ok =>
                    /\ one
                    /\ IsBase10Index(RightOfHash(s))
                    /\ restored.v = [type |-> "UtxoRef",
                                     value |-> [txid |-> RefBytes(Remaining(LeftOfHash(s))),
                                                index |-> DecimalValue(RightOfHash(s))]]
              /\ ~one => Threw(restored, "Invalid utxo ref")
              /\ (one /\ hexToBytes(LeftOfHash(s)).ok /\ ~IsBase10Index(RightOfHash(s)))
                    => Threw(restored, "Invalid utxo ref")

\* j is the wire form of the Custom value c: an object of exactly the two
\* members constructor and fields, the fields encoded one by one in order
RECURSIVE IsWireFormOf(_, _)
IsWireFormOf(j, c) ==
    /\ IsPlainObject(j)
    /\ DOMAIN j.props = {"constructor", "fields"}
    /\ j.props.constructor = c.constructor
    /\ IsArray(j.props.fields)
    /\ Len(j.props.fields.items) = Len(c.fields)
    /\ \A i \in 1..Len(c.fields) :
          IF isCustomArgValue(c.fields[i])
          THEN IsWireFormOf(j.props.fields.items[i], c.fields[i])
          ELSE Ok(j.props.fields.items[i]) = primitiveToJson(c.fields[i])

\* C10: for every Custom value c, toJson(c) is {constructor: c's index,
\* fields: F} where F is as long as c.fields and F[i] = toJson(c.fields[i])
\* for every i, in order, recursively for nested Custom values and through
\* the primitive codec for primitive fields; no field name is on the wire.
C10_CustomEncode ==
    (pc = "encoded" /\ fn = "createCustomArg")
        => /\ json.ok
           /\ IsWireFormOf(json.v, value.v)
           /\ \A i \in 1..Len(value.v.fields) :
                  Ok(json.v.props.fields.items[i]) = toJson(value.v.fields[i])

C10_Witness ==
    /\ pc = "encoded"
    /\ fn = "createCustomArg"
    /\ Len(value.v.fields) = 2
    /\ ~isCustomArgValue(value.v.fields[1])
    /\ value.v.fields[1].type = "String"
    /\ isCustomArgValue(value.v.fields[2])
    /\ json.v.props.fields.items[1] = JsString(<<"a", "b">>)
    /\ IsPlainObject(json.v.props.fields.items[2])

\* C11: for every Custom value c made by createCustomArg whose fields are
\* ArgValues other than UtxoSet (Int, Bool, String, Bytes, Address, UtxoRef,
\* nested Custom), valueToCustom(toJson(c)) has the same constructor index
\* and, field by field and recursively, the same variant and content as c.
C11_CustomRoundTrip ==
    (pc = "decoded" /\ fn = "createCustomArg")
        => (restored.ok /\ restored.v = value.v)

\* every constructor index of the Custom value c, at every depth, is a
\* non-negative integer
RECURSIVE WellIndexed(_)
WellIndexed(c) ==
    /\ IsNonNegativeInteger(c.constructor)
    /\ \A i \in 1..Len(c.fields) :
          isCustomArgValue(c.fields[i]) => WellIndexed(c.fields[i])

\* the JSON object j, or an object with fields anywhere in its field lists,
\* holds something else than a non-negative integer as its constructor
RECURSIVE HasBadIndex(_)
HasBadIndex(j) ==
    /\ IsPlainObject(j)
    /\ \/ ~IsNonNegativeInteger(ConstructorOf(j))
       \/ /\ InFields(j)
          /\ IsArray(j.props.fields)
          /\ \E i \in 1..Len(j.props.fields.items) :
                /\ InFields(j.props.fields.items[i])
                /\ HasBadIndex(j.props.fields.items[i])

RECURSIVE FieldAfter(_, _, _)
FieldAfter(fields, replaced, index) ==
    IF replaced = <<>> THEN fields[index]
    ELSE IF replaced[Len(replaced)].index = index THEN replaced[Len(replaced)].field
    ELSE FieldAfter(fields, SubSeq(replaced, 1, Len(replaced) - 1), index)

IsSnakeCase(key) ==
    \A i \in 1..Len(key) : IsLowerOrDigit(key[i]) \/ key[i] = "_"

\* C15: for every key k, applying the camelCase-to-snake_case transform T to
\* an already transformed key changes nothing, T(T(k)) = T(k), and T(k) = k
\* for every key that is already snake_case.
C15_IdempotentCasing ==
    /\ (fn = "newKey" /\ pc = "recased") => restored = value
    /\ (fn = "newKey" /\ pc \in {"cased", "recased"} /\ IsSnakeCase(input))
          => value = Ok(input)

C15_Witness ==
    /\ fn = "newKey"
    /\ pc = "recased"
    /\ input = <<"a", "Z", "9">>
    /\ value = Ok(<<"a", "_", "z", "9">>)
    /\ restored = Ok(<<"a", "_", "z", "9">>)


\* the key with "_" put between a lowercase letter or digit and an uppercase
\* letter right after it, all in lowercase, taken position by position
RECURSIVE RewrittenUpTo(_, _)
RewrittenUpTo(key, n) ==
    IF n = 0 THEN <<>>
    ELSE RewrittenUpTo(key, n - 1)
         \o (IF n > 1 /\ IsLowerOrDigit(key[n - 1]) /\ IsUpper(key[n])
             THEN <<"_">> ELSE <<>>)
         \o toLowerCase(<<key[n]>>)

Rewritten(key) == RewrittenUpTo(key, Len(key))

\* the members of an object that reach the wire under the key Name(key): the
\* last one written under that key counts, and JSON has no undefined
SentKeys(entries, Name(_)) ==
    {Name(entries[i].key) : i \in
        {i \in DOMAIN entries :
            /\ entries[i].value # JsUndefined
            /\ \A j \in DOMAIN entries :
                   j > i => Name(entries[j].key) # Name(entries[i].key)}}

KeysOf(entries) == {entries[i].key : i \in DOMAIN entries}

Unchanged(key) == key

\* the keys inside a value, one level down
InnerKeys(v) ==
    IF "props" \in DOMAIN v THEN DOMAIN v.props
    ELSE IF "items" \in DOMAIN v
    THEN UNION {IF "props" \in DOMAIN v.items[i] THEN DOMAIN v.items[i].props ELSE {} :
                   i \in DOMAIN v.items}
    ELSE {}

C16_Purity ==
    (fn = "fromJson" /\ pc \in {"decoded", "written"}) =>
        /\ pc = "decoded" => heap[1] = json
        /\ value.ok => heap[value.v.value.ref] = restored
        /\ value.ok => value.v.value.ref # 1


\* a value the marshaller has a conversion for: an ArgValue, a Custom value,
\* a value ArgValue.from accepts, or a container of such values
RECURSIVE Convertible(_)
Convertible(v) ==
    \/ IsTagged(v) /\ toJsonTagged(v).ok
    \/ ~IsTagged(v) /\ isCustomArgValue(v)
    \/ /\ ~IsTagged(v)
       /\ ~isCustomArgValue(v)
       /\ \/ from(v).ok
          \/ IsArray(v) /\ \A k \in DOMAIN v.items : Convertible(v.items[k])
          \/ IsPlainObject(v) /\ \A k \in DOMAIN v.props : Convertible(v.props[k])

\* C17: a failed conversion reaches the caller as an error: when an argument
\* of resolve holds a value that cannot be converted, the call is rejected
\* and no request carrying the value (or leaving it out) is sent.
C17_NoSwallowedErrors ==
    ( /\ fn = "resolve"
      /\ pc # "idle"
      /\ \E i \in DOMAIN input.args : ~Convertible(input.args[i].value) )
    => /\ requests = <<>>
       /\ settled # <<>>
       /\ ~settled[1].ok


\* the four ways a call ends
Terminal(outcome) ==
    CASE outcome.ok -> "Success"
      [] outcome.error = "NetworkError" -> "TransportFailure"
      [] outcome.error \in {"StatusCodeError", "JsonRpcError"} -> "ProtocolFailure"
      [] outcome.error = "TrpError" /\ outcome.message[1] = "Failed to parse response: "
            -> "ParseFailure"
      [] outcome.error = "TrpError" -> "ProtocolFailure"
      [] OTHER -> "MarshallingFailure"

\* the marshalling of the arguments of the call throws
MarshallingFails ==
    /\ fn = "resolve"
    /\ \/ ~convertArgsToJson(input.args, TRUE).ok
       \/ input.envArgs.given /\ ~convertArgsToJson(input.envArgs.entries, FALSE).ok

\* C18 as stated: every call issues exactly one request and ends in exactly
\* one outcome.
C18_Original ==
    /\ Len(requests) <= 1
    /\ Len(settled) <= 1
    /\ (fn \in {"resolve", "submit"} /\ pc = "done") =>
           Len(requests) = 1 /\ Len(settled) = 1

\* C18: a call whose arguments marshal issues exactly one request and ends
\* in one outcome; a resolve call whose marshalling throws issues none and is
\* rejected with that error; no call issues a second request or ends twice.
C18_SingleAttempt ==
    (fn \in {"resolve", "submit"}) =>
        /\ Len(requests) <= 1
        /\ Len(settled) <= 1
        /\ pc = "sending" => Len(requests) = 1 /\ settled = <<>>
        /\ pc = "done" =>
              /\ Len(settled) = 1
              /\ Len(requests) = (IF MarshallingFails THEN 0 ELSE 1)
              /\ MarshallingFails <=> Terminal(settled[1]) = "MarshallingFailure"
              /\ Terminal(settled[1]) \in
                     {"Success", "TransportFailure", "ProtocolFailure",
                      "ParseFailure", "MarshallingFailure"}

C18_Witness ==
    /\ fn = "resolve"
    /\ pc = "done"
    /\ Len(requests) = 1
    /\ requests[1].body.method = "trp.resolve"
    /\ Len(settled) = 1
    /\ input.net.kind = "reject"
    /\ Terminal(settled[1]) = "TransportFailure"


\* the call got a response
Responded ==
    /\ fn \in {"resolve", "submit"}
    /\ pc = "done"
    /\ Len(requests) = 1
    /\ input.net.kind = "response"

\* C19: when the response of a resolve or submit call has a status outside
\* 200..299, the call rejects with StatusCodeError carrying that status and
\* the message "HTTP error <status>: <statusText>", whatever the body is.
C19_HttpStatus ==
    (Responded /\ (input.net.status < 200 \/ input.net.status > 299)) =>
        /\ ~settled[1].ok
        /\ settled[1].error = "StatusCodeError"
        /\ settled[1].members.statusCode = input.net.status
        /\ settled[1].message =
               <<"HTTP error ", input.net.status, ": ", input.net.statusText>>

C19_Witness ==
    /\ Responded
    /\ fn = "submit"
    /\ input.net.status = 404
    /\ input.net.statusText = "Not Found"
    /\ ~input.net.parses
    /\ settled[1].error = "StatusCodeError"
    /\ settled[1].message = <<"HTTP error ", 404, ": ", "Not Found">>


\* the call got a 2xx response whose body is a JSON object
RespondedObject ==
    /\ Responded
    /\ input.net.status >= 200
    /\ input.net.status <= 299
    /\ input.net.parses
    /\ IsPlainObject(input.net.body)

\* the rejection the error member of a body asks for
JsonRpcRejection(error) ==
    Rejected("JsonRpcError", <<"JSON-RPC error: ", Member(error, "message")>>,
             [data |-> Member(error, "data"), cause |-> Member(error, "data")])

\* C20 as stated: a 2xx body with an error member rejects with JsonRpcError.
C20_Original ==
    (RespondedObject /\ "error" \in DOMAIN input.net.body.props) =>
        settled[1] = JsonRpcRejection(input.net.body.props.error)

\* C20: a 2xx body whose error member holds a truthy value (an object, a
\* non-empty text) rejects the call with JsonRpcError, its message
\* "JSON-RPC error: <error.message>" and its data error.data, also when the
\* body has a result; an error member that is null, false, 0 or "" counts as
\* no error.
C20_JsonRpcError ==
    (RespondedObject /\ "error" \in DOMAIN input.net.body.props) =>
        IF Truthy(input.net.body.props.error)
        THEN settled[1] = JsonRpcRejection(input.net.body.props.error)
        ELSE settled[1] =
                 Settle(requests[1].body.method,
                        [input.net EXCEPT !.body =
                            JsObject([k \in DOMAIN input.net.body.props \ {"error"} |->
                                          input.net.body.props[k]])])
                 \/ (fn = "submit" /\ settled[1] = Ok(JsUndefined))

C20_Witness ==
    /\ RespondedObject
    /\ fn = "resolve"
    /\ DOMAIN input.net.body.props = {"error", "result"}
    /\ Truthy(input.net.body.props.error)
    /\ settled[1].error = "JsonRpcError"
    /\ settled[1].message = <<"JSON-RPC error: ", JsString(<<"b", "a", "d">>)>>
    /\ settled[1].members.data = JsObject([code |-> JsNumber(Big(FALSE, <<1>>))])


\* the transport threw: fetch rejected the request of the call
TransportThrew ==
    /\ fn \in {"resolve", "submit"}
    /\ pc = "done"
    /\ Len(requests) = 1
    /\ input.net.kind = "reject"

\* C21: whenever the transport throws during a resolve or submit call, the
\* call rejects with NetworkError, its message "Network error: <underlying
\* message>" and its cause the underlying error.
C21_TransportFailure ==
    TransportThrew =>
        settled[1] = Rejected("NetworkError",
                              <<"Network error: ", input.net.error.message>>,
                              [cause |-> input.net.error])


\* the call got a 2xx response whose body is a JSON value with members to
\* ask for (anything but null) and without an error member
RespondedNoError ==
    /\ Responded
    /\ input.net.status >= 200
    /\ input.net.status <= 299
    /\ input.net.parses
    /\ input.net.body # JsNull
    /\ ~(IsPlainObject(input.net.body) /\ "error" \in DOMAIN input.net.body.props)

\* result of the body, undefined when the body has none
ResultOf(body) ==
    IF IsPlainObject(body) /\ "result" \in DOMAIN body.props
    THEN body.props.result ELSE JsUndefined

C23_UniqueIds ==
    fn = "calls" =>
        /\ \A k \in DOMAIN requests :
              /\ requests[k].body.jsonrpc = "2.0"
              /\ requests[k].body.method = input[requests[k].call].method
              /\ requests[k].body.id \in Uuids
        /\ \A k, l \in DOMAIN requests :
              k # l => requests[k].body.id # requests[l].body.id

C23_Witness ==
    /\ fn = "calls"
    /\ Len(requests) = 2
    /\ requests[1].call = 2
    /\ requests[2].call = 1
    /\ requests[1].endpoint = requests[2].endpoint
    /\ requests[1].body.method = "trp.submit"
    /\ requests[2].body.method = "trp.resolve"
    /\ requests[1].body.id # requests[2].body.id


\* the request of the call was sent and the call was rejected
CycleFailed ==
    /\ fn \in {"resolve", "submit"}
    /\ pc = "done"
    /\ Len(requests) = 1
    /\ ~settled[1].ok

\* the error wraps a TrpError: its cause is an error of one of the classes
WrapsTrpError(outcome) ==
    /\ "cause" \in DOMAIN outcome.members
    /\ "error" \in DOMAIN outcome.members.cause
    /\ outcome.members.cause.error \in TrpErrorClasses

\* C24: every failure of the request/response cycle rejects with an instance
\* of TrpError, and an error that is a TrpError already (status, JSON-RPC
\* error, missing result) is rethrown as it is, never wrapped in another.
C24_ErrorHierarchy ==
    CycleFailed =>
        /\ settled[1].error \in TrpErrorClasses
        /\ ~WrapsTrpError(settled[1])
        /\ (input.net.kind = "response"
            /\ (input.net.status < 200 \/ input.net.status > 299))
              => settled[1].members = [statusCode |-> input.net.status]

C24_Witness ==
    /\ CycleFailed
    /\ input.net.kind = "reject"
    /\ input.net.error.error = "AbortError"
    /\ settled[1].error = "TrpError"
    /\ settled[1].members.cause = input.net.error


\* what a call ends in when it is the only call of the program
Alone(call) ==
    IF call.method = "trp.resolve" /\ ~ResolveParams(Clients[call.client], call.protoTx).ok
    THEN ResolveParams(Clients[call.client], call.protoTx)
    ELSE IF call.method = "trp.submit" /\ Settle(call.method, call.net).ok
    THEN Ok(JsUndefined)
    ELSE Settle(call.method, call.net)

\* what a call sends when it is the only call of the program
ParamsAlone(call) ==
    IF call.method = "trp.resolve"
    THEN ResolveParams(Clients[call.client], call.protoTx).v
    ELSE call.params

\* C25: with several calls on the same client in flight and their responses
\* arriving in any order, each call sends its own request and ends as it
\* would alone, by its own response, and no call changes the configuration
\* of a client (endpoint, headers, envArgs).
C25_CallIndependence ==
    fn = "calls" =>
        /\ value = Clients
        /\ \A i \in DOMAIN pc :
              /\ pc[i] = "done" => settled[i] = Alone(input[i])
              /\ pc[i] # "done" => settled[i] = None
        /\ \A k \in DOMAIN requests :
              /\ requests[k].body.params = ParamsAlone(input[requests[k].call])
              /\ requests[k].endpoint = Clients[input[requests[k].call].client].endpoint
              /\ requests[k].headers =
                     prepareHeaders(Clients[input[requests[k].call].client])

C25_Witness ==
    /\ fn = "calls"
    /\ Len(requests) = 2
    /\ requests[1].call = 1
    /\ requests[2].call = 2
    /\ input[1].client = input[2].client
    /\ input[1].net # input[2].net
    /\ pc = <<"sending", "done">>
    /\ ~settled[2].ok
    /\ settled[2].error = "StatusCodeError"


\* C26: when installCommand has failed and its rollback has run, every file
\* of the project the installation changed or created is as it was before
\* the installation: the same text, or missing if it was missing.
C26_InstallerRollback ==
    (fn = "installCommand" /\ pc = "rolledBack") =>
        \A f \in ProjectFiles : heap[f] = input.fs[f]


\* a native number, bigint, boolean, string, byte buffer or UtxoRef shape
IsNative(v) ==
    \/ v.typeof \in {"string", "number", "bigint", "boolean"}
    \/ IsUint8Array(v)
    \/ v.typeof = "object" /\ "ref" \in DOMAIN v

\* the marshalling of a value by the first rule that matches it
RECURSIVE ByRules(_)
ByRules(v) ==
    IF IsTagged(v) THEN toJsonTagged(v)
    ELSE IF isCustomArgValue(v) THEN toJson(v)
    ELSE IF IsArray(v)
    THEN LET items == MapOutcome([k \in DOMAIN v.items |-> ByRules(v.items[k])])
         IN IF items.ok THEN Ok(JsArray(items.v)) ELSE items
    ELSE IF IsNative(v) THEN TryFrom(v)
    ELSE IF IsPlainObject(v)
    THEN MapProps([k \in DOMAIN v.props |-> ByRules(v.props[k])])
    ELSE Ok(v)

\* C27: every argument value is marshalled by the first matching rule of:
\* tagged value, Custom value, array (element by element, same rules),
\* native value (inferred, then encoded), plain object (member by member),
\* anything else unchanged.  Stated for a resolve call with one argument:
\* what is sent under its key is what the rules give, and when the rules
\* give an error the call is rejected with it.
C27_MarshallingOrder ==
    (fn = "resolve" /\ pc # "idle" /\ Len(input.args) = 1) =>
        IF ByRules(input.args[1].value).ok
        THEN /\ Len(requests) = 1
             /\ requests[1].body.params.args =
                    Stringified(<<[key |-> Rewritten(input.args[1].key),
                                   value |-> ByRules(input.args[1].value).v]>>)
        ELSE /\ requests = <<>>
             /\ ~settled[1].ok


\* the call got a 2xx response whose body is no JSON text
RespondedUnparseable ==
    /\ Responded
    /\ input.net.status >= 200
    /\ input.net.status <= 299
    /\ ~input.net.parses

\* C28 as stated: the message of the TrpError is "Failed to parse response".
C28_Original ==
    RespondedUnparseable =>
        /\ settled[1].error = "TrpError"
        /\ settled[1].message = <<"Failed to parse response">>

\* C28: when the body of a 2xx response is not valid JSON, the call rejects
\* with a TrpError of the base class whose message is "Failed to parse
\* response: " followed by the message of the parse error, and whose cause
\* is the parse error.
C28_ParseFailure ==
    RespondedUnparseable =>
        /\ ~settled[1].ok
        /\ settled[1].error = "TrpError"
        /\ Len(settled[1].message) = 2
        /\ settled[1].message[1] = "Failed to parse response: "
        /\ settled[1].members.cause.error = "SyntaxError"
        /\ settled[1].message[2] = settled[1].members.cause.message

C28_Witness ==
    /\ RespondedUnparseable
    /\ fn = "submit"
    /\ input.net.status = 299
    /\ settled[1].error = "TrpError"
    /\ settled[1].message = <<"Failed to parse response: ", "Unexpected token">>


\* C29: the args object resolve marshals has exactly one key per key of the
\* args map it was given: no two argument names share a wire key.
C29_NoArgumentLost ==
    (fn = "resolve" /\ pc # "idle" /\ ~MarshallingFails) =>
        Cardinality(KeysOf(convertArgsToJson(input.args, TRUE).v))
            = Cardinality(KeysOf(input.args))


\* what marshalling the arguments of the resolve call gives
MarshalledArgs == convertArgsToJson(input.args, TRUE)

MarshalledEnv == convertArgsToJson(input.envArgs.entries, FALSE)

\* C30: a request of resolve carries the fully marshalled args and, when the
\* client has envArgs, the fully marshalled envArgs; when marshalling throws,
\* no request is ever issued for the call and the call is rejected with the
\* error marshalling threw.
C30_MarshallingPrecedesSending ==
    (fn = "resolve") =>
        /\ MarshallingFails =>
              /\ requests = <<>>
              /\ pc # "sending"
              /\ pc = "done" =>
                    settled = <<IF ~MarshalledArgs.ok THEN MarshalledArgs
                                ELSE MarshalledEnv>>
        /\ requests # <<>> =>
              /\ ~MarshallingFails
              /\ requests[1].body.params.args = Stringified(MarshalledArgs.v)
              /\ IF input.envArgs.given
                 THEN requests[1].body.params.env = Stringified(MarshalledEnv.v)
                 ELSE "env" \notin DOMAIN requests[1].body.params

\* the args marshal, the envArgs hold a tagged value of unknown type: the call
\* is rejected with the ArgValueError and nothing was sent
C30_Witness ==
    /\ fn = "resolve"
    /\ pc = "done"
    /\ MarshalledArgs.ok
    /\ Len(input.args) > 0
    /\ input.envArgs.given
    /\ ~MarshalledEnv.ok
    /\ requests = <<>>
    /\ Len(settled) = 1
    /\ settled[1].error = "ArgValueError"

=============================================================================
